---- MODULE Spec2Model ----
(***************************************************************************)
(* Winston-Lutz batch runner of pymedphys                                  *)
(* (_experimental/streamlit/apps/wlutz/_calculation.py): detection and its *)
(* memoisation, reconciliation against the persisted raw_results.csv, the  *)
(* per (treatment, port) chart buckets and the statistics overview.        *)
(*                                                                         *)
(* Tables (pandas DataFrames) are records [none, columns, rows]: columns   *)
(* is the set of column names and rows a sequence of functions from the    *)
(* column names to cell values.  Numeric cells are integers, NaN is the    *)
(* out-of-band integer below, and the cells of a CSV file are text.        *)
(***************************************************************************)
EXTENDS Integers, Sequences, FiniteSets, TLC

\* ------------------------------------------------------------------ bounds
MaxRows == 2
MaxRuns == 2
MaxCalls == 2
MaxRois == 2
MaxChecks == 2

\* ------------------------------------------------------- values and tables
NaN == -99

Numbers == (-9) .. 9

\* IEEE comparison: NaN compares unequal to everything, itself included.
IeeeEq(a, b) == a # NaN /\ b # NaN /\ a = b

\* IEEE subtraction: NaN propagates.
Sub(a, b) == IF a = NaN \/ b = NaN THEN NaN ELSE a - b

RESULTS_DATA_COLUMNS ==
    {"filepath", "algorithm", "diff_x", "diff_y", "field_centre_x",
     "field_centre_y", "field_rotation", "bb_centre_x", "bb_centre_y"}

DATABASE_COLUMNS ==
    {"filepath", "treatment", "port", "gantry", "collimator", "width", "length"}

StringColumns == {"filepath", "algorithm"}

None == [none |-> TRUE, columns |-> {}, rows |-> << >>]

DataFrame(columns, rows) == [none |-> FALSE, columns |-> columns, rows |-> rows]

EmptyDataFrame == DataFrame({}, << >>)

RECURSIVE SeqToSet(_)
SeqToSet(s) == IF s = << >> THEN {} ELSE {Head(s)} \cup SeqToSet(Tail(s))

RECURSIVE SelectRows(_, _)
SelectRows(rows, filepath) ==
    IF rows = << >> THEN << >>
    ELSE IF Head(rows)["filepath"] = filepath
         THEN <<Head(rows)>> \o SelectRows(Tail(rows), filepath)
         ELSE SelectRows(Tail(rows), filepath)

Project(row, columns) == [c \in columns |-> row[c]]

RECURSIVE ProjectRows(_, _)
ProjectRows(rows, columns) ==
    IF rows = << >> THEN << >>
    ELSE <<Project(Head(rows), columns)>> \o ProjectRows(Tail(rows), columns)

\* A row widened to a larger column set; the cells it lacks are NaN.
Fill(row, columns) ==
    [c \in columns |-> IF c \in DOMAIN row THEN row[c] ELSE NaN]

RECURSIVE FillRows(_, _)
FillRows(rows, columns) ==
    IF rows = << >> THEN << >>
    ELSE <<Fill(Head(rows), columns)>> \o FillRows(Tail(rows), columns)

\* DataFrame.append / pd.concat of two frames; concat skips a None operand.
Concat(a, b) ==
    IF b.none THEN a
    ELSE LET columns == a.columns \cup b.columns
         IN  DataFrame(columns,
                       FillRows(a.rows, columns) \o FillRows(b.rows, columns))

\* One left row joined with every right row of the same filepath.
RECURSIVE JoinOne(_, _)
JoinOne(left_row, right_rows) ==
    IF right_rows = << >> THEN << >>
    ELSE LET right_row == Head(right_rows)
             joined == [c \in (DOMAIN left_row) \cup (DOMAIN right_row) |->
                           IF c \in DOMAIN left_row THEN left_row[c]
                           ELSE right_row[c]]
         IN  IF right_row["filepath"] = left_row["filepath"]
             THEN <<joined>> \o JoinOne(left_row, Tail(right_rows))
             ELSE JoinOne(left_row, Tail(right_rows))

RECURSIVE JoinRows(_, _)
JoinRows(left_rows, right_rows) ==
    IF left_rows = << >> THEN << >>
    ELSE JoinOne(Head(left_rows), right_rows)
             \o JoinRows(Tail(left_rows), right_rows)

RECURSIVE DropSeen(_, _)
DropSeen(rows, seen) ==
    IF rows = << >> THEN << >>
    ELSE IF Head(rows) \in seen THEN DropSeen(Tail(rows), seen)
         ELSE <<Head(rows)>> \o DropSeen(Tail(rows), seen \cup {Head(rows)})

\* DataFrame.drop_duplicates: the first occurrence of every row is kept.
drop_duplicates(frame) == DataFrame(frame.columns, DropSeen(frame.rows, {}))

\* The distinct values of one column (Series.unique).
Unique(frame, column) == {frame.rows[k][column] : k \in 1 .. Len(frame.rows)}

\* ------------------------------------------------------------ CSV files
NoFile == [exists |-> FALSE, columns |-> {}, rows |-> << >>]

FormatCell(column, value) ==
    IF column \in StringColumns THEN value
    ELSE IF value = NaN THEN "" ELSE ToString(value)

ParseCell(column, text) ==
    IF column \in StringColumns THEN text
    ELSE IF text = "" THEN NaN
    ELSE CHOOSE n \in Numbers : ToString(n) = text

RECURSIVE FormatRows(_)
FormatRows(rows) ==
    IF rows = << >> THEN << >>
    ELSE <<[c \in DOMAIN Head(rows) |-> FormatCell(c, Head(rows)[c])]>>
             \o FormatRows(Tail(rows))

RECURSIVE ParseRows(_)
ParseRows(rows) ==
    IF rows = << >> THEN << >>
    ELSE <<[c \in DOMAIN Head(rows) |-> ParseCell(c, Head(rows)[c])]>>
             \o ParseRows(Tail(rows))

to_csv(frame) ==
    [exists |-> TRUE, columns |-> frame.columns, rows |-> FormatRows(frame.rows)]

\* pd.read_csv inside try/except FileNotFoundError: a missing file reads as None.
read_csv(file) ==
    IF file.exists THEN DataFrame(file.columns, ParseRows(file.rows)) ELSE None

\* ------------------------------------------------------------ detection
Images == {"ok.jpg", "no_bb.jpg", "zero_field.jpg"}

Algorithms == {"PyMedPhys", "PyLinac"}

database_directory == "iview"

_get_full_image_path(directory, relative_image_path) ==
    <<directory, relative_image_path>>

Undefined == <<NaN, NaN>>

\* findfield.field_centre_and_rotation_refining: raises ValueError when the
\* refinement does not converge (the uniform zero field); otherwise a centre
\* and a rotation that depend on the edge lengths and the penumbra.
field_centre_and_rotation_refining(image_path, edge_lengths, penumbra) ==
    IF image_path[2] = "zero_field.jpg"
    THEN [raised |-> TRUE, field_centre |-> Undefined, field_rotation |-> NaN]
    ELSE [raised |-> FALSE,
          field_centre |-> <<edge_lengths[1], penumbra>>,
          field_rotation |-> edge_lengths[2]]

\* findbb.optimise_bb_centre: raises ValueError when no BB is found; an
\* undefined field centre or rotation propagates into the BB centre.
optimise_bb_centre(image_path, bb_diameter, edge_lengths, penumbra, field_centre, field_rotation) ==
    IF image_path[2] = "no_bb.jpg"
    THEN [raised |-> TRUE, bb_centre |-> Undefined]
    ELSE IF field_centre[1] = NaN \/ field_centre[2] = NaN \/ field_rotation = NaN
    THEN [raised |-> FALSE, bb_centre |-> Undefined]
    ELSE [raised |-> FALSE, bb_centre |-> <<bb_diameter, 0>>]

\* pymedphys._wlutz.pylinac.run_wlutz with fill_errors_with_nan=True: a
\* detection error fills both centres with NaN; NaN inputs raise ValueError.
run_wlutz(image_path, edge_lengths, penumbra, field_centre, field_rotation) ==
    IF field_centre[1] = NaN \/ field_centre[2] = NaN \/ field_rotation = NaN
    THEN [raised |-> TRUE, field_centre |-> Undefined, bb_centre |-> Undefined]
    ELSE IF image_path[2] = "no_bb.jpg"
    THEN [raised |-> FALSE, field_centre |-> Undefined, bb_centre |-> Undefined]
    ELSE [raised |-> FALSE,
          field_centre |-> <<edge_lengths[1] + 1, penumbra>>,
          bb_centre |-> <<1, 1>>]

\* The body of _get_pymedphys_field_centre_and_rotation.
_get_pymedphys_field_centre_and_rotation(image_path, edge_lengths, penumbra) ==
    LET refined ==
            field_centre_and_rotation_refining(image_path, edge_lengths, penumbra)
    IN  IF refined.raised
        THEN [field_centre |-> Undefined, field_rotation |-> NaN]
        ELSE [field_centre |-> refined.field_centre,
              field_rotation |-> refined.field_rotation]

\* The BB optimisation without its try/except: the ValueError escapes.
OptimiseUncaught(image_path, bb_diameter, edge_lengths, penumbra, pymedphys_field_centre, field_rotation) ==
    [field_centre |-> pymedphys_field_centre,
     field_rotation |-> field_rotation,
     bb_centre |-> optimise_bb_centre(image_path, bb_diameter, edge_lengths, penumbra, pymedphys_field_centre, field_rotation).bb_centre,
     raised |-> optimise_bb_centre(image_path, bb_diameter, edge_lengths, penumbra, pymedphys_field_centre, field_rotation).raised]

\* try: optimise_bb_centre(...) except ValueError: bb_centre = [nan, nan]
_pymedphys_wlutz_calculate(image_path, bb_diameter, edge_lengths, penumbra, pymedphys_field_centre, field_rotation) ==
    LET optimised ==
            optimise_bb_centre(image_path, bb_diameter, edge_lengths, penumbra,
                               pymedphys_field_centre, field_rotation)
    IN  [field_centre |-> pymedphys_field_centre,
         field_rotation |-> field_rotation,
         bb_centre |-> IF optimised.raised THEN Undefined
                       ELSE optimised.bb_centre,
         raised |-> FALSE]

\* try: run_wlutz(...) except ValueError: both centres = [nan, nan]
_pylinac_wlutz_calculate(image_path, bb_diameter, edge_lengths, penumbra, pymedphys_field_centre, field_rotation) ==
    LET pylinac_results ==
            run_wlutz(image_path, edge_lengths, penumbra,
                      pymedphys_field_centre, field_rotation)
    IN  [field_centre |-> IF pylinac_results.raised THEN Undefined
                          ELSE pylinac_results.field_centre,
         field_rotation |-> field_rotation,
         bb_centre |-> IF pylinac_results.raised THEN Undefined
                       ELSE pylinac_results.bb_centre,
         raised |-> FALSE]

ALGORITHM_FUNCTION_MAP(algorithm, image_path, bb_diameter, edge_lengths, penumbra, pymedphys_field_centre, field_rotation) ==
    IF algorithm = "PyMedPhys"
    THEN _pymedphys_wlutz_calculate(image_path, bb_diameter, edge_lengths,
                                    penumbra, pymedphys_field_centre,
                                    field_rotation)
    ELSE _pylinac_wlutz_calculate(image_path, bb_diameter, edge_lengths,
                                  penumbra, pymedphys_field_centre,
                                  field_rotation)

\* ------------------------------------------------------------ st.cache
\* A memo table is a function from the keys seen so far to the stored value.
EmptyCache == << >>

CacheGet(memo, key, computed) ==
    IF key \in DOMAIN memo THEN memo[key] ELSE computed

CachePut(memo, key, computed) ==
    IF key \in DOMAIN memo THEN memo ELSE memo @@ (key :> computed)

\* st.cache keys an entry on every argument of the decorated function.
FieldCacheKey(image_path, edge_lengths, penumbra) ==
    <<image_path, edge_lengths, penumbra>>

\* A key that leaves the BB diameter out.
KeyWithoutDiameter(image_path, algorithm, bb_diameter, edge_lengths, penumbra) ==
    <<image_path, algorithm, 0, edge_lengths, penumbra>>

WlutzCacheKey(image_path, algorithm, bb_diameter, edge_lengths, penumbra) ==
    <<image_path, algorithm, bb_diameter, edge_lengths, penumbra>>

\* _get_field_parameters: the memoised field centre and rotation.
_get_field_parameters(field_memo, image_path, edge_lengths, penumbra) ==
    CacheGet(field_memo, FieldCacheKey(image_path, edge_lengths, penumbra),
             _get_pymedphys_field_centre_and_rotation(image_path, edge_lengths,
                                                      penumbra))

\* Lines 335-343: the dispatch on the field parameters.  The comparison with
\* np.nan is IEEE equality.
Dispatch(wlutz_input_parameters, image_path, algorithm, bb_diameter, edge_lengths, penumbra) ==
    IF IeeeEq(wlutz_input_parameters.field_rotation, NaN)
    THEN [field_centre |-> Undefined, field_rotation |-> NaN, bb_centre |-> Undefined, raised |-> FALSE]
    ELSE ALGORITHM_FUNCTION_MAP(algorithm, image_path, bb_diameter, edge_lengths, penumbra, wlutz_input_parameters.field_centre, wlutz_input_parameters.field_rotation)

\* The body of _calculate_wlutz (run on a miss of its memo table).
_calculate_wlutz(field_memo, image_path, algorithm, bb_diameter, edge_lengths, penumbra) ==
    Dispatch(_get_field_parameters(field_memo, image_path, edge_lengths, penumbra), image_path, algorithm, bb_diameter, edge_lengths, penumbra)

\* ------------------------------------------------------------ state
VARIABLES
    wlutz_memo,             \* st.cache table of _calculate_wlutz
    field_memo,             \* st.cache table of _get_pymedphys_field_centre_and_rotation
    detections,             \* argument tuple -> times the body of _calculate_wlutz ran
    last_call,              \* the latest direct call of _calculate_wlutz
    calls,                  \* number of direct calls made
    database_table,         \* the dataset (sequence of rows)
    raw_results_csv,        \* the persisted results file
    statistics_overview_csv,\* the statistics file
    pc,                     \* position of run_calculation
    runs,                   \* runs started so far
    previously_calculated_results,
    selected_algorithms,
    bb_diameter,
    penumbra,
    i,                      \* loop index of the current run
    collated_results,
    chart_bucket,
    error,                  \* the exception that ended the run, "" when none
    log,                    \* per processed row: what the iteration did
    written,                \* times this run wrote each of its two files
    preceding,              \* the run before this one: whether it completed, its inputs, what it wrote
    initial_csv,            \* raw_results.csv as it was before the first run
    loads,                  \* (image path, edge_lengths, penumbra) -> times _load_image_field_interpolator ran for it
    figures,                \* (image path, edge_lengths, penumbra) -> times plot_diagnostic_figures was requested
    other,                  \* a second session running run_calculation on the same results path
    alias_csv,              \* ALIASES.csv: structure key -> text of its cell
    ALIASES,                \* the alias table of the latest constraint check
    dvh_calcs,              \* the DVHs of the latest constraint check
    constraints_df,         \* the scored constraint table
    score_pc,               \* position of the constraint check
    score_error,            \* the exception that ended the constraint check, "" when none
    checks,                 \* constraint checks and alias definitions made so far
    keyring,                \* the credential store: (storage name, key) -> stored text
    credentials,            \* the latest call of the credential functions
    settled,                \* (hostname, port, database) -> pair returned since its last delete_credentials
    kept,                   \* storage name -> pair returned since the last delete or save under that name
    cli                     \* the latest run of anonymise_with_pseudo_cli

memo_vars == <<wlutz_memo, field_memo, detections, loads, figures>>

call_vars == <<last_call, calls>>

run_vars == <<pc, runs, previously_calculated_results, selected_algorithms, bb_diameter, penumbra, i, collated_results, chart_bucket, error, log, written, preceding, initial_csv>>

file_vars == <<raw_results_csv, statistics_overview_csv>>

score_vars == <<alias_csv, ALIASES, dvh_calcs, constraints_df, score_pc, score_error, checks>>

credential_vars == <<keyring, credentials, settled, kept>>

vars == <<memo_vars, call_vars, database_table, run_vars, file_vars, other, score_vars, credential_vars, cli>>

\* ------------------------------------------------ calls through st.cache
Memo(wm, fm, det, lds) == [wlutz_memo |-> wm, field_memo |-> fm, detections |-> det, loads |-> lds]

Count(det, args) == IF args \in DOMAIN det THEN det[args] ELSE 0

Bump(det, args) ==
    IF args \in DOMAIN det THEN [det EXCEPT ![args] = @ + 1] ELSE det @@ (args :> 1)

\* A refinement that is run again by every _get_field_parameters.
RefinementNotMemoised(fm, field_key) == 2

\* Runs of _load_image_field_interpolator in one _get_field_parameters: its own
\* (line 434) and, when the field centre is not memoised yet, the one in the body
\* of _get_pymedphys_field_centre_and_rotation (line 411).
FieldParameterLoads(fm, field_key) == IF field_key \in DOMAIN fm THEN 1 ELSE 2

Loaded(lds, field_key, times) ==
    IF field_key \in DOMAIN lds THEN [lds EXCEPT ![field_key] = @ + times] ELSE lds @@ (field_key :> times)

\* The decorator: a hit returns the stored entry and runs nothing; a miss runs
\* the body and stores what it returned (nothing is stored when it raised).
Memoised(memo, key, args, computed, field_key, field_value) ==
    IF key \in DOMAIN memo.wlutz_memo
    THEN [hit |-> TRUE, result |-> memo.wlutz_memo[key], memo |-> memo]
    ELSE [hit |-> FALSE,
          result |-> computed,
          memo |-> Memo(IF computed.raised THEN memo.wlutz_memo ELSE CachePut(memo.wlutz_memo, key, computed),
                        CachePut(memo.field_memo, field_key, field_value),
                        Bump(memo.detections, args),
                        Loaded(memo.loads, field_key, FieldParameterLoads(memo.field_memo, field_key)))]

\* One call of the decorated _calculate_wlutz.
CalculateWlutz(memo, image_path, algorithm, diameter, edge_lengths, pen) ==
    Memoised(memo,
             WlutzCacheKey(image_path, algorithm, diameter, edge_lengths, pen),
             <<image_path, algorithm, diameter, edge_lengths, pen>>,
             _calculate_wlutz(memo.field_memo, image_path, algorithm, diameter, edge_lengths, pen),
             FieldCacheKey(image_path, edge_lengths, pen),
             _get_pymedphys_field_centre_and_rotation(image_path, edge_lengths, pen))

ResultRow(relative_image_path, algorithm, result) ==
    [filepath |-> relative_image_path,
     algorithm |-> algorithm,
     diff_x |-> Sub(result.field_centre[1], result.bb_centre[1]),
     diff_y |-> Sub(result.field_centre[2], result.bb_centre[2]),
     field_centre_x |-> result.field_centre[1],
     field_centre_y |-> result.field_centre[2],
     field_rotation |-> result.field_rotation,
     bb_centre_x |-> result.bb_centre[1],
     bb_centre_y |-> result.bb_centre[2]]

Prepend(row, rest) ==
    [memo |-> rest.memo, results_data |-> <<row>> \o rest.results_data, raised |-> rest.raised]

\* The loop of get_results_for_image over the algorithms (lines 243-260).
RECURSIVE ResultsData(_, _, _, _, _, _)
RECURSIVE AfterCall(_, _, _, _, _, _)
ResultsData(memo, relative_image_path, algorithms, diameter, edge_lengths, pen) ==
    IF algorithms = << >> THEN [memo |-> memo, results_data |-> << >>, raised |-> FALSE]
    ELSE AfterCall(CalculateWlutz(memo, _get_full_image_path(database_directory, relative_image_path), Head(algorithms), diameter, edge_lengths, pen),
                   relative_image_path, algorithms, diameter, edge_lengths, pen)

AfterCall(call, relative_image_path, algorithms, diameter, edge_lengths, pen) ==
    IF call.result.raised
    THEN [memo |-> call.memo, results_data |-> << >>, raised |-> TRUE]
    ELSE Prepend(ResultRow(relative_image_path, Head(algorithms), call.result),
                 ResultsData(call.memo, relative_image_path, Tail(algorithms), diameter, edge_lengths, pen))

\* Lines 262-267: the frame of the collected rows and the check of its columns.
ResultsFrame(data, columns) ==
    [memo |-> data.memo,
     results |-> DataFrame(columns, data.results_data),
     error |-> IF data.raised THEN "ValueError: detection"
               ELSE IF columns # RESULTS_DATA_COLUMNS THEN "ValueError: Unexpected columns"
               ELSE ""]

FrameColumns(data) == IF data.results_data = << >> THEN {} ELSE RESULTS_DATA_COLUMNS

Framed(data) == ResultsFrame(data, FrameColumns(data))

\* get_results_for_image: error is the exception it raises, "" when it returns.
get_results_for_image(memo, relative_image_path, algorithms, diameter, edge_lengths, pen) ==
    Framed(ResultsData(memo, relative_image_path, algorithms, diameter, edge_lengths, pen))

\* ------------------------------------------------------------ inputs
DatabaseRow(filepath, treatment, port, width) ==
    [filepath |-> filepath, treatment |-> treatment, port |-> port, gantry |-> 0, collimator |-> 0, width |-> width, length |-> 1]

\* The rows the dataset is filtered from.  Rows 4 and 5 repeat an image under
\* another treatment and another port (a defective join upstream).
iview_database ==
    << DatabaseRow("ok.jpg", 1, 1, 1),
       DatabaseRow("no_bb.jpg", 1, 1, 2),
       DatabaseRow("zero_field.jpg", 2, 1, 1),
       DatabaseRow("ok.jpg", 2, 1, 1),
       DatabaseRow("no_bb.jpg", 1, 2, 2) >>

Pick(table, indices) == [k \in 1 .. Len(indices) |-> table[indices[k]]]

Increasing(indices) ==
    \A a, b \in 1 .. Len(indices) : a < b => indices[a] < indices[b]

\* The datasets: the database filtered down to at most MaxRows rows, in order.
Datasets ==
    {Pick(iview_database, indices) :
        indices \in {s \in UNION {[1 .. n -> 1 .. Len(iview_database)] : n \in 0 .. MaxRows} : Increasing(s)}}

Selections ==
    {<< >>, <<"PyMedPhys">>, <<"PyLinac">>, <<"PyMedPhys", "PyLinac">>}

Diameters == {1, 2}

Penumbras == {1, 2}

RunPenumbras == {1}

\* The row an earlier session wrote for ok.jpg and PyMedPhys when the dataset
\* listed the image under treatment 2 (row 4 of the database), as CSV text.
PersistedRow(columns) ==
    [c \in columns |->
        IF c = "filepath" THEN "ok.jpg"
        ELSE IF c = "algorithm" THEN "PyMedPhys"
        ELSE IF c \in {"diff_x", "bb_centre_y", "gantry", "collimator"} THEN "0"
        ELSE IF c = "treatment" THEN "2"
        ELSE IF c = "notes" THEN "7"
        ELSE "1"]

PersistedFile(columns) ==
    [exists |-> TRUE, columns |-> columns, rows |-> <<PersistedRow(columns)>>]

\* What raw_results.csv can hold before the first run: nothing, the file of an
\* earlier session, the nine result columns alone, one column more, one less.
InitialFiles ==
    {NoFile,
     PersistedFile(RESULTS_DATA_COLUMNS \cup DATABASE_COLUMNS),
     PersistedFile(RESULTS_DATA_COLUMNS),
     PersistedFile(RESULTS_DATA_COLUMNS \cup {"notes"}),
     PersistedFile(RESULTS_DATA_COLUMNS \ {"bb_centre_y"})}

NoStatistics == [exists |-> FALSE, rows |-> {}]

NoRun == [completed |-> FALSE, selected_algorithms |-> << >>, bb_diameter |-> 0, penumbra |-> 0, file |-> NoFile]

NothingWritten == [raw_results |-> 0, statistics |-> 0]

\* No second session.
NoOther == [pc |-> "idle"]

NoCall == [called |-> FALSE, hit |-> FALSE, args |-> << >>, result |-> << >>]

\* ------------------------------------------------------------ run_calculation
\* Python's %, applied to a cell (NaN propagates).
Mod90(value) == IF value = NaN THEN NaN ELSE value % 90

RECURSIVE Transformed(_)
Transformed(rows) ==
    IF rows = << >> THEN << >>
    ELSE LET row == Head(rows)
             extra == [transformed_field_rotation |-> Sub(90, Mod90(row["field_rotation"])),
                       transformed_collimator |-> Mod90(row["collimator"])]
         IN  <<[c \in DOMAIN row \cup DOMAIN extra |-> IF c \in DOMAIN row THEN row[c] ELSE extra[c]]>>
                 \o Transformed(Tail(rows))

\* results.merge(database_table, left_on="filepath", right_on="filepath")
Merge(frame, table) ==
    DataFrame(frame.columns \cup DATABASE_COLUMNS, JoinRows(frame.rows, table))

\* The row of the dataset read for the edge lengths at loop index idx.
EdgeRow(table, idx) == table[idx + 1]

\* The algorithms handed to get_results_for_image when the image is computed.
AlgorithmsToCompute(algorithms, persisted) == algorithms

\* A bucket whose chart is built anew at every image of the pair.
BuiltAnew(bucket, key, rows) ==
    IF key \in DOMAIN bucket
    THEN [bucket EXCEPT ![key] = [built |-> @.built + 1, rows |-> rows]]
    ELSE bucket @@ (key :> [built |-> 1, rows |-> rows])

\* The chart bucket after one image's working table.
AddToBucket(bucket, key, rows) ==
    IF key \in DOMAIN bucket
    THEN [bucket EXCEPT ![key] = [built |-> @.built, rows |-> @.rows \o rows]]
    ELSE bucket @@ (key :> [built |-> 1, rows |-> rows])

\* A load that accepts the nine result columns and nothing else.
ExactColumns(previous) == ~previous.none /\ previous.columns # RESULTS_DATA_COLUMNS

\* Lines 68-70: indexing the persisted frame by "filepath" and by the result
\* columns raises KeyError when one of them is not a column of it.
KeyError(previous) == ~previous.none /\ ~(RESULTS_DATA_COLUMNS \subseteq previous.columns)

\* Lines 68-70: the persisted rows of the image, on the result columns.
PersistedResults(previous, relative_image_path) ==
    IF previous.none \/ ~(RESULTS_DATA_COLUMNS \subseteq previous.columns) THEN EmptyDataFrame
    ELSE DataFrame(RESULTS_DATA_COLUMNS, ProjectRows(SelectRows(previous.rows, relative_image_path), RESULTS_DATA_COLUMNS))

\* Lines 95-102: the working table of the image.
WorkingTable(results, table) ==
    DataFrame(results.columns \cup DATABASE_COLUMNS \cup {"transformed_field_rotation", "transformed_collimator"}, Transformed(Merge(results, table).rows))

\* A collapse that raises only when there is no value and else picks one.
CollapseLenient(treatments, ports) ==
    IF treatments = {} THEN "ValueError: Expected exactly one treatment per image"
    ELSE IF ports = {} THEN "ValueError: Expected exactly one port per image"
    ELSE ""

\* Lines 104-105: _collapse_column_to_single_value on treatment, then on port.
CollapseError(treatments, ports) ==
    IF Cardinality(treatments) # 1 THEN "ValueError: Expected exactly one treatment per image"
    ELSE IF Cardinality(ports) # 1 THEN "ValueError: Expected exactly one port per image"
    ELSE ""

\* Lines 93-128 once the results of the image are known.
Collate(outcome, failure, working_table, collated, bucket, entry) ==
    [error |-> failure,
     memo |-> outcome.memo,
     collated |-> IF failure = "" THEN Concat(collated, outcome.results) ELSE collated,
     bucket |-> IF failure = ""
                THEN AddToBucket(bucket, <<CHOOSE t \in Unique(working_table, "treatment") : TRUE, CHOOSE q \in Unique(working_table, "port") : TRUE>>, working_table.rows)
                ELSE bucket,
     entry |-> [entry EXCEPT !.joined = outcome.error = "", !.results = IF outcome.error # "" THEN << >> ELSE outcome.results.rows]]

Collapse(outcome, working_table, collated, bucket, entry) ==
    Collate(outcome,
            IF outcome.error # "" THEN outcome.error
            ELSE CollapseError(Unique(working_table, "treatment"), Unique(working_table, "port")),
            working_table, collated, bucket, entry)

AfterResults(outcome, table, collated, bucket, entry) ==
    Collapse(outcome, WorkingTable(outcome.results, table), collated, bucket, entry)

\* Lines 67-91: reuse the persisted rows or compute the image.
Decide(memo, previous, table, algorithms, diameter, pen, idx, collated, bucket, relative_image_path, persisted, key_error, compute) ==
    AfterResults(IF key_error THEN [memo |-> memo, results |-> EmptyDataFrame, error |-> "KeyError"]
                 ELSE IF compute
                 THEN get_results_for_image(memo, relative_image_path, AlgorithmsToCompute(algorithms, persisted), diameter, <<EdgeRow(table, idx)["width"], EdgeRow(table, idx)["length"]>>, pen)
                 ELSE [memo |-> memo, results |-> persisted, error |-> ""],
                 table, collated, bucket,
                 [filepath |-> relative_image_path,
                  computed |-> compute,
                  present |-> Unique(persisted, "algorithm"),
                  invoked |-> IF compute THEN SeqToSet(AlgorithmsToCompute(algorithms, persisted)) ELSE {},
                  edge_lengths |-> IF compute THEN <<EdgeRow(table, idx)["width"], EdgeRow(table, idx)["length"]>> ELSE << >>,
                  joined |-> FALSE,
                  results |-> << >>])

Lookup(memo, previous, table, algorithms, diameter, pen, idx, collated, bucket, relative_image_path, persisted) ==
    Decide(memo, previous, table, algorithms, diameter, pen, idx, collated, bucket, relative_image_path, persisted,
           KeyError(previous),
           /\ ~KeyError(previous)
           /\ (previous.none \/ ~(SeqToSet(algorithms) \subseteq Unique(persisted, "algorithm"))))

\* One iteration of the loop over database_table["filepath"][::-1] (lines 66-134).
Iteration(memo, previous, table, algorithms, diameter, pen, idx, collated, bucket) ==
    Lookup(memo, previous, table, algorithms, diameter, pen, idx, collated, bucket,
           table[Len(table) - idx]["filepath"],
           PersistedResults(previous, table[Len(table) - idx]["filepath"]))

\* Lines 49-64: read the persisted file and set up the run.
StartRun(algorithms, diameter, pen) ==
    /\ pc \in {"idle", "done", "aborted"}
    /\ runs < MaxRuns
    /\ runs' = runs + 1
    /\ previously_calculated_results' = read_csv(raw_results_csv)
    /\ selected_algorithms' = algorithms
    /\ bb_diameter' = diameter
    /\ penumbra' = pen
    /\ i' = 0
    /\ collated_results' = EmptyDataFrame
    /\ chart_bucket' = << >>
    /\ error' = ""
    /\ log' = << >>
    /\ written' = NothingWritten
    /\ preceding' = [completed |-> pc = "done", selected_algorithms |-> selected_algorithms, bb_diameter |-> bb_diameter, penumbra |-> penumbra, file |-> raw_results_csv]
    /\ pc' = "loop"
    /\ UNCHANGED <<memo_vars, call_vars, database_table, file_vars, initial_csv, other, score_vars, credential_vars, cli>>

\* The state after one iteration.
Step(step) ==
    /\ wlutz_memo' = step.memo.wlutz_memo
    /\ field_memo' = step.memo.field_memo
    /\ detections' = step.memo.detections
    /\ loads' = step.memo.loads
    /\ UNCHANGED figures
    /\ collated_results' = step.collated
    /\ chart_bucket' = step.bucket
    /\ log' = Append(log, step.entry)
    /\ error' = step.error
    /\ IF step.error = ""
       THEN pc' = "loop" /\ i' = i + 1
       ELSE pc' = "aborted" /\ i' = i

\* Lines 66-134: one dataset row.
ProcessRow ==
    /\ pc = "loop"
    /\ i < Len(database_table)
    /\ Step(Iteration(Memo(wlutz_memo, field_memo, detections, loads), previously_calculated_results, database_table, selected_algorithms, bb_diameter, penumbra, i, collated_results, chart_bucket))
    /\ UNCHANGED <<call_vars, database_table, file_vars, runs, previously_calculated_results, selected_algorithms, bb_diameter, penumbra, written, preceding, initial_csv, other, score_vars, credential_vars, cli>>

\* The merge that forgets the persisted rows.
WithoutPrevious(collated, table, previous) == drop_duplicates(Merge(collated, table))

\* The merge that writes the collated results without the dataset's columns.
WithoutContext(collated, table, previous) == drop_duplicates(Concat(collated, previous))

\* What lines 136-148 hand to to_csv.
MergedWithPrevious(collated, table, previous) ==
    drop_duplicates(Concat(Merge(collated, table), previous))

\* Lines 136-149: merge with the dataset and with the persisted rows, write the file.
WriteResults ==
    /\ pc = "loop"
    /\ i = Len(database_table)
    /\ IF "filepath" \in collated_results.columns
       THEN /\ raw_results_csv' = to_csv(MergedWithPrevious(collated_results, database_table, previously_calculated_results))
            /\ written' = [written EXCEPT !.raw_results = @ + 1]
            /\ pc' = "statistics"
            /\ error' = error
       ELSE /\ pc' = "aborted"
            /\ error' = "KeyError"
            /\ UNCHANGED <<raw_results_csv, written>>
    /\ UNCHANGED <<memo_vars, call_vars, database_table, statistics_overview_csv, runs, previously_calculated_results, selected_algorithms, bb_diameter, penumbra, i, collated_results, chart_bucket, log, preceding, initial_csv, other, score_vars, credential_vars, cli>>

\* ------------------------------------------------------------ statistics
RECURSIVE ColumnValues(_, _, _, _, _)
ColumnValues(rows, treatment, port, algorithm, column) ==
    IF rows = << >> THEN << >>
    ELSE LET row == Head(rows)
             rest == ColumnValues(Tail(rows), treatment, port, algorithm, column)
         IN  IF row["treatment"] = treatment /\ row["port"] = port /\ row["algorithm"] = algorithm /\ row[column] # NaN
             THEN <<row[column]>> \o rest
             ELSE rest

RECURSIVE Sum(_)
Sum(values) == IF values = << >> THEN 0 ELSE Head(values) + Sum(Tail(values))

Min(values) == CHOOSE v \in SeqToSet(values) : \A w \in SeqToSet(values) : v <= w

Max(values) == CHOOSE v \in SeqToSet(values) : \A w \in SeqToSet(values) : v >= w

\* numerator / denominator rounded to the nearest integer, ties to even.
RoundDiv(numerator, denominator) ==
    LET q == numerator \div denominator
        r == numerator % denominator
    IN  IF 2 * r < denominator THEN q
        ELSE IF 2 * r > denominator THEN q + 1
        ELSE IF q % 2 = 0 THEN q ELSE q + 1

\* A description whose mean is the smallest value.
MeanAsMin(values) ==
    IF values = << >> THEN [min |-> NaN, max |-> NaN, mean |-> NaN]
    ELSE [min |-> Min(values), max |-> Max(values), mean |-> 100 * Min(values)]

\* Series.describe().round(2) of the defined values: min, max and the mean, the
\* mean held in hundredths.
Describe(values) ==
    IF values = << >> THEN [min |-> NaN, max |-> NaN, mean |-> NaN]
    ELSE [min |-> Min(values), max |-> Max(values), mean |-> RoundDiv(100 * Sum(values), Len(values))]

Orientations == {<<"diff_x", "Transverse">>, <<"diff_y", "Radial">>}

\* Lines 151-202: one record per bucket, orientation and selected algorithm,
\* described over this run's contextualised results.
Description(description, treatment, port, orientation, algorithm) ==
    [treatment |-> treatment, port |-> port, orientation |-> orientation, algorithm |-> algorithm,
     min |-> description.min, max |-> description.max, mean |-> description.mean]

StatisticsCollection(contextualised_results, bucket, algorithms) ==
    {Description(Describe(ColumnValues(contextualised_results.rows, key[1], key[2], algorithm, orientation[1])), key[1], key[2], orientation[2], algorithm) :
        key \in DOMAIN bucket, orientation \in Orientations, algorithm \in SeqToSet(algorithms)}

\* Lines 198-209: pd.concat of no description raises; otherwise the file is written.
Overview(statistics_collection) ==
    IF statistics_collection = {}
    THEN /\ pc' = "aborted"
         /\ error' = "ValueError: No objects to concatenate"
         /\ UNCHANGED <<statistics_overview_csv, written>>
    ELSE /\ statistics_overview_csv' = [exists |-> TRUE, rows |-> statistics_collection]
         /\ written' = [written EXCEPT !.statistics = @ + 1]
         /\ pc' = "done"
         /\ error' = error

\* Lines 151-209: the statistics of the run.
WriteStatistics ==
    /\ pc = "statistics"
    /\ Overview(StatisticsCollection(Merge(collated_results, database_table), chart_bucket, selected_algorithms))
    /\ UNCHANGED <<memo_vars, call_vars, database_table, raw_results_csv, runs, previously_calculated_results, selected_algorithms, bb_diameter, penumbra, i, collated_results, chart_bucket, log, preceding, initial_csv, other, score_vars, credential_vars, cli>>

\* ------------------------------------------------------------ direct calls
Stored(memo) ==
    /\ wlutz_memo' = memo.wlutz_memo
    /\ field_memo' = memo.field_memo
    /\ detections' = memo.detections
    /\ loads' = memo.loads

Called(call, args) ==
    /\ Stored(call.memo)
    /\ last_call' = [called |-> TRUE, hit |-> call.hit, args |-> args, result |-> call.result]

\* A call of _calculate_wlutz from a call site (lines 245 and 286).
CallCalculateWlutz(relative_image_path, algorithm, diameter, edge_lengths, pen) ==
    /\ calls < MaxCalls
    /\ Called(CalculateWlutz(Memo(wlutz_memo, field_memo, detections, loads), _get_full_image_path(database_directory, relative_image_path), algorithm, diameter, edge_lengths, pen),
              <<_get_full_image_path(database_directory, relative_image_path), algorithm, diameter, edge_lengths, pen>>)
    /\ calls' = calls + 1
    /\ UNCHANGED <<figures, database_table, run_vars, file_vars, other, score_vars, credential_vars, cli>>

\* Line 279: _get_wlutz_input_parameters called outside any cache.  It loads the
\* image (line 434) and asks the memoised field centre and rotation.
InputParameters(memo, image_path, edge_lengths, pen) ==
    Memo(memo.wlutz_memo,
         CachePut(memo.field_memo, FieldCacheKey(image_path, edge_lengths, pen), _get_pymedphys_field_centre_and_rotation(image_path, edge_lengths, pen)),
         memo.detections,
         Loaded(memo.loads, FieldCacheKey(image_path, edge_lengths, pen), FieldParameterLoads(memo.field_memo, FieldCacheKey(image_path, edge_lengths, pen))))

NoFigureCall(memo, last) == [hit |-> last.hit, result |-> last.result, memo |-> memo, args |-> last.args, called |-> last.called]

FigureCall(call, args) == [hit |-> call.hit, result |-> call.result, memo |-> call.memo, args |-> args, called |-> TRUE]

\* Lines 285-292: one _calculate_wlutz per selected algorithm; an exception of
\* the detection ends the request.
RECURSIVE FigureCalls(_, _, _, _, _, _)
FigureCalls(call, image_path, algorithms, diameter, edge_lengths, pen) ==
    IF algorithms = << >> \/ (call.called /\ call.result.raised) THEN call
    ELSE FigureCalls(FigureCall(CalculateWlutz(call.memo, image_path, Head(algorithms), diameter, edge_lengths, pen),
                                <<image_path, Head(algorithms), diameter, edge_lengths, pen>>),
                     image_path, Tail(algorithms), diameter, edge_lengths, pen)

\* plot_diagnostic_figures (lines 270-294).
plot_diagnostic_figures(relative_image_path, diameter, edge_lengths, pen, algorithms) ==
    /\ calls < MaxCalls
    /\ LET call == FigureCalls(NoFigureCall(InputParameters(Memo(wlutz_memo, field_memo, detections, loads), _get_full_image_path(database_directory, relative_image_path), edge_lengths, pen), NoCall),
                               _get_full_image_path(database_directory, relative_image_path), algorithms, diameter, edge_lengths, pen)
       IN  /\ Stored(call.memo)
           /\ last_call' = IF call.called THEN [called |-> TRUE, hit |-> call.hit, args |-> call.args, result |-> call.result] ELSE last_call
    /\ figures' = Loaded(figures, FieldCacheKey(_get_full_image_path(database_directory, relative_image_path), edge_lengths, pen), 1)
    /\ calls' = calls + 1
    /\ UNCHANGED <<database_table, run_vars, file_vars, other, score_vars, credential_vars, cli>>

\* ------------------------------------------------------------ a second session
\* A write that merges with the file as it is at the time of the write.
ReadAgain(read, current) == current

\* The frame a run merges its results with before writing: the one it read when
\* it started (line 51), whatever the file holds by now.
Snapshot(read, current) == read

NoProgress(memo) == [error |-> "", memo |-> memo, collated |-> EmptyDataFrame, bucket |-> << >>]

\* The loop over the dataset (lines 66-134), from index idx to its end or to the
\* first exception.
RECURSIVE Loop(_, _, _, _, _, _, _)
Loop(step, previous, table, algorithms, diameter, pen, idx) ==
    IF idx = Len(table) \/ step.error # "" THEN step
    ELSE Loop(Iteration(step.memo, previous, table, algorithms, diameter, pen, idx, step.collated, step.bucket),
              previous, table, algorithms, diameter, pen, idx + 1)

\* Lines 49-64 in the second session: it reads the persisted file.
OtherStart(table, algorithms, diameter, pen) ==
    /\ other.pc = "idle"
    /\ other' = [pc |-> "read",
                 database_table |-> table,
                 selected_algorithms |-> algorithms,
                 bb_diameter |-> diameter,
                 penumbra |-> pen,
                 previously_calculated_results |-> read_csv(raw_results_csv),
                 start |-> [runs |-> runs, pc |-> pc]]
    /\ UNCHANGED <<memo_vars, call_vars, database_table, run_vars, file_vars, score_vars, credential_vars, cli>>

\* Lines 136-209 in the second session, after its loop.
OtherWrites(step, statistics_collection) ==
    /\ Stored(step.memo)
    /\ raw_results_csv' =
          IF step.error = "" /\ "filepath" \in step.collated.columns
          THEN to_csv(MergedWithPrevious(step.collated, other.database_table, Snapshot(other.previously_calculated_results, read_csv(raw_results_csv))))
          ELSE raw_results_csv
    /\ statistics_overview_csv' =
          IF step.error = "" /\ "filepath" \in step.collated.columns /\ statistics_collection # {}
          THEN [exists |-> TRUE, rows |-> statistics_collection]
          ELSE statistics_overview_csv
    /\ other' = [pc |-> "done",
                 database_table |-> other.database_table,
                 selected_algorithms |-> other.selected_algorithms,
                 bb_diameter |-> other.bb_diameter,
                 penumbra |-> other.penumbra,
                 previously_calculated_results |-> other.previously_calculated_results,
                 start |-> other.start,
                 finish |-> [runs |-> runs, written |-> written.raw_results],
                 collated_results |-> step.collated,
                 wrote |-> step.error = "" /\ "filepath" \in step.collated.columns]

OtherFinished(step) ==
    OtherWrites(step,
                IF step.error = "" /\ "filepath" \in step.collated.columns
                THEN StatisticsCollection(Merge(step.collated, other.database_table), step.bucket, other.selected_algorithms)
                ELSE {})

\* Lines 66-209 in the second session: its loop, then its two files.
OtherFinish ==
    /\ other.pc = "read"
    /\ OtherFinished(Loop(NoProgress(Memo(wlutz_memo, field_memo, detections, loads)),
                          other.previously_calculated_results, other.database_table, other.selected_algorithms,
                          other.bb_diameter, other.penumbra, 0))
    /\ UNCHANGED <<figures, call_vars, database_table, run_vars, score_vars, credential_vars, cli>>

\* ------------------------------------------------------------ text
\* A Python str is the sequence of its characters.
Uppercase == <<"A", "B", "C", "D", "E", "F", "G", "H", "I", "J", "K", "L", "M", "N", "O", "P", "Q", "R", "S", "T", "U", "V", "W", "X", "Y", "Z">>

Lowercase == <<"a", "b", "c", "d", "e", "f", "g", "h", "i", "j", "k", "l", "m", "n", "o", "p", "q", "r", "s", "t", "u", "v", "w", "x", "y", "z">>

LowerChar(c) ==
    IF \E k \in 1 .. Len(Uppercase) : Uppercase[k] = c
    THEN Lowercase[CHOOSE k \in 1 .. Len(Uppercase) : Uppercase[k] = c]
    ELSE c

\* str.lower()
RECURSIVE lower(_)
lower(text) == IF text = << >> THEN << >> ELSE <<LowerChar(Head(text))>> \o lower(Tail(text))

RECURSIVE lstrip(_, _)
lstrip(text, c) == IF text # << >> /\ Head(text) = c THEN lstrip(Tail(text), c) ELSE text

RECURSIVE rstrip(_, _)
rstrip(text, c) ==
    IF text # << >> /\ text[Len(text)] = c THEN rstrip(SubSeq(text, 1, Len(text) - 1), c) ELSE text

\* str.strip(c): the characters c at both ends are dropped, and no other.
strip(text, c) == rstrip(lstrip(text, c), c)

\* str.replace(c, "")
replace(text, c) == SelectSeq(text, LAMBDA x : x # c)

\* str.split(sep)
RECURSIVE split(_, _)
split(text, sep) ==
    IF \A k \in 1 .. Len(text) : text[k] # sep THEN <<text>>
    ELSE LET first == CHOOSE k \in 1 .. Len(text) : text[k] = sep /\ \A m \in 1 .. (k - 1) : text[m] # sep
         IN  <<SubSeq(text, 1, first - 1)>> \o split(SubSeq(text, first + 1, Len(text)), sep)

\* text[1:-1]
Inner(text) == SubSeq(text, 2, Len(text) - 1)

\* str(list) of a list of str, as to_csv writes the cell.
Repr(item) == <<"'">> \o item \o <<"'">>

RECURSIVE JoinRepr(_)
JoinRepr(items) ==
    IF items = << >> THEN << >>
    ELSE IF Len(items) = 1 THEN Repr(Head(items))
    ELSE Repr(Head(items)) \o <<",", " ">> \o JoinRepr(Tail(items))

StrList(items) == <<"[">> \o JoinRepr(items) \o <<"]">>

\* ------------------------------------------------------------ numbers of the scorer
\* A float of the scorer is held exactly, as a fraction in lowest terms.
RECURSIVE GCD(_, _)
GCD(a, b) == IF b = 0 THEN a ELSE GCD(b, a % b)

Abs(n) == IF n < 0 THEN 0 - n ELSE n

Rat(n, d) ==
    LET g == GCD(Abs(n), Abs(d))
        s == IF d < 0 THEN 0 - 1 ELSE 1
    IN  <<(s * n) \div g, (s * d) \div g>>

Number(n) == <<n, 1>>

RatAdd(a, b) == Rat(a[1] * b[2] + b[1] * a[2], a[2] * b[2])

RatSub(a, b) == Rat(a[1] * b[2] - b[1] * a[2], a[2] * b[2])

RatMul(a, b) == Rat(a[1] * b[1], a[2] * b[2])

RatDiv(a, b) == Rat(a[1] * b[2], a[2] * b[1])

RatLeq(a, b) == a[1] * b[2] <= b[1] * a[2]

\* The "-" of a cell that holds no number.
Dash == <<"-">>

\* ------------------------------------------------------------ constraint scorer
\* A DVH as calc_dvh returns it, of a structure one half of whose volume receives
\* lo Gy and the other half hi Gy.
DVH(lo, hi, volume) ==
    [mean |-> Rat(lo + hi, 2), max |-> Number(hi), volume |-> Number(volume), lo |-> Number(lo), hi |-> Number(hi)]

\* DVH.dose_constraint(volume, units).value: the dose that the given volume (in
\* per cent of the structure, or in cm3) receives at least.
dose_constraint(dvh, volume, units) ==
    LET fraction == IF units = "cm3" THEN RatDiv(volume, dvh.volume) ELSE RatDiv(volume, Number(100))
    IN  IF ~RatLeq(fraction, Number(1)) THEN Number(0)
        ELSE IF RatLeq(fraction, Rat(1, 2)) THEN dvh.hi
        ELSE dvh.lo

\* DVH.volume_constraint(dose, "Gy").value: the volume in cm3 that receives at
\* least the dose.
volume_constraint(dvh, dose) ==
    IF RatLeq(dose, dvh.lo) THEN dvh.volume
    ELSE IF RatLeq(dose, dvh.hi) THEN RatDiv(dvh.volume, Number(2))
    ELSE Number(0)

\* An entry of the constraint table: the placeholder " " or a list of thresholds.
Placeholder == [placeholder |-> TRUE, thresholds |-> << >>]

Thresholds(list) == [placeholder |-> FALSE, thresholds |-> list]

\* constraint is not " "
IsNot(constraint, marker) == constraint.placeholder # marker.placeholder

Liver == <<"L", "i", "v", "e", "r">>

Cord == <<"C", "o", "r", "d">>

Lung == <<"L", "u", "n", "g">>

TotalPatient == <<"T", "o", "t", "a", "l", " ", "P", "a", "t", "i", "e", "n", "t">>

StructureKeys == {Liver, Cord, Lung}

\* CONSTRAINTS of chartchecks.dose_constraints: per structure key, the entry of
\* each constraint type in the order the dictionary lists them.
CONSTRAINTS ==
    (Liver :> <<[type |-> "Mean", constraint |-> Thresholds(<<<<Number(18)>>>>)],
                [type |-> "Max", constraint |-> Thresholds(<<<<Number(24)>>, <<Number(22)>>>>)],
                [type |-> "V%", constraint |-> Placeholder],
                [type |-> "D%", constraint |-> Placeholder]>>)
    @@ (Cord :> <<[type |-> "Mean", constraint |-> Placeholder],
                  [type |-> "Max", constraint |-> Thresholds(<<<<Number(45)>>>>)],
                  [type |-> "V%", constraint |-> Thresholds(<<<<Number(20), Rat(1, 2)>>>>)],
                  [type |-> "D%", constraint |-> Thresholds(<<<<Number(10), Number(25)>>>>)]>>)
    @@ (Lung :> <<[type |-> "Mean", constraint |-> Placeholder],
                  [type |-> "Max", constraint |-> Placeholder],
                  [type |-> "V%", constraint |-> Placeholder],
                  [type |-> "D%", constraint |-> Placeholder]>>)

ConstraintRow(roi, structure, type, dose, volume, actual_dose, actual_volume, score) ==
    [Structure |-> roi, Structure_Key |-> structure, Type |-> type, Dose |-> dose, Volume |-> volume,
     ActualDose |-> actual_dose, ActualVolume |-> actual_volume, Score |-> score]

\* Lines 305-309 and 329-335: the volume that receives the dose, in per cent of
\* the structure's volume.
ActualVolume(dvh, dose) == RatMul(RatDiv(volume_constraint(dvh, dose), dvh.volume), Number(100))

\* Lines 301-323: a V% threshold (dose, volume fraction).
VolumeRow(roi, structure, dvh, dose, volume) ==
    ConstraintRow(roi, structure, "V%", dose, volume, dose_constraint(dvh, volume, "%"), ActualVolume(dvh, dose),
                  RatAdd(RatSub(dose, dose_constraint(dvh, volume, "%")), RatSub(volume, ActualVolume(dvh, dose))))

\* Lines 325-349: a D% threshold (dose, volume in cm3).
DoseRow(roi, structure, dvh, dose, volume) ==
    ConstraintRow(roi, structure, "D%", dose, volume, dose_constraint(dvh, volume, "cm3"), ActualVolume(dvh, dose),
                  RatAdd(RatSub(dose, dose_constraint(dvh, volume, "cm3")),
                         RatSub(RatMul(RatDiv(volume, dvh.volume), Number(100)), ActualVolume(dvh, dose))))

\* A score of the actual value minus the threshold.
ActualMinusThreshold(roi, structure, type, threshold, dvh) ==
    IF type = "Mean" THEN ConstraintRow(roi, structure, "Mean", threshold[1], Dash, dvh.mean, Dash, RatSub(dvh.mean, threshold[1]))
    ELSE IF type = "Max" THEN ConstraintRow(roi, structure, "Max", threshold[1], Dash, dvh.max, Dash, RatSub(dvh.max, threshold[1]))
    ELSE IF type = "V%" THEN VolumeRow(roi, structure, dvh, threshold[1], RatMul(threshold[2], Number(100)))
    ELSE DoseRow(roi, structure, dvh, threshold[1], threshold[2])

\* The row added for one threshold of a constraint type (lines 273-281, 288-296,
\* 303-320, 327-346).
AddedConstraint(roi, structure, type, threshold, dvh) ==
    IF type = "Mean" THEN ConstraintRow(roi, structure, "Mean", threshold[1], Dash, dvh.mean, Dash, RatSub(threshold[1], dvh.mean))
    ELSE IF type = "Max" THEN ConstraintRow(roi, structure, "Max", threshold[1], Dash, dvh.max, Dash, RatSub(threshold[1], dvh.max))
    ELSE IF type = "V%" THEN VolumeRow(roi, structure, dvh, threshold[1], RatMul(threshold[2], Number(100)))
    ELSE DoseRow(roi, structure, dvh, threshold[1], threshold[2])

RECURSIVE ThresholdRows(_, _, _, _, _)
ThresholdRows(roi, structure, type, thresholds, dvh) ==
    IF thresholds = << >> THEN << >>
    ELSE <<AddedConstraint(roi, structure, type, Head(thresholds), dvh)>> \o ThresholdRows(roi, structure, type, Tail(thresholds), dvh)

\* A scorer that gives a placeholder entry a row of score zero.
RECURSIVE PlaceholderScoredAsZero(_, _, _, _)
PlaceholderScoredAsZero(roi, structure, structure_constraints, dvh) ==
    IF structure_constraints = << >> THEN << >>
    ELSE (IF Head(structure_constraints).constraint.placeholder
          THEN <<ConstraintRow(roi, structure, Head(structure_constraints).type, Dash, Dash, Dash, Dash, Number(0))>>
          ELSE ThresholdRows(roi, structure, Head(structure_constraints).type, Head(structure_constraints).constraint.thresholds, dvh))
         \o PlaceholderScoredAsZero(roi, structure, Tail(structure_constraints), dvh)

\* Lines 270-349: the rows of the constraint types, in the order of the entry.
RECURSIVE StructureRows(_, _, _, _)
StructureRows(roi, structure, structure_constraints, dvh) ==
    IF structure_constraints = << >> THEN << >>
    ELSE (IF Head(structure_constraints).type \in {"Mean", "Max", "V%", "D%"} /\ IsNot(Head(structure_constraints).constraint, Placeholder)
          THEN ThresholdRows(roi, structure, Head(structure_constraints).type, Head(structure_constraints).constraint.thresholds, dvh)
          ELSE << >>)
         \o StructureRows(roi, structure, Tail(structure_constraints), dvh)

RECURSIVE SumScores(_)
SumScores(rows) == IF rows = << >> THEN Number(0) ELSE RatAdd(Head(rows).Score, SumScores(Tail(rows)))

\* structure_df["Score"].mean()
MeanScore(rows) == RatDiv(SumScores(rows), Number(Len(rows)))

\* calculate_average_OAR_score: iloc[0] of a frame without rows raises IndexError.
calculate_average_OAR_score(structure_df) ==
    IF structure_df = << >> THEN [raised |-> "IndexError", rows |-> << >>]
    ELSE [raised |-> "",
          rows |-> structure_df \o <<ConstraintRow(structure_df[1].Structure, structure_df[1].Structure_Key, "Average Score", Dash, Dash, Dash, Dash, MeanScore(structure_df))>>]

\* dvh_calcs is a dictionary: its items in insertion order.
Rois(calcs) == [k \in 1 .. Len(calcs) |-> calcs[k].roi]

StructureDvh(calcs, roi) == calcs[CHOOSE k \in 1 .. Len(calcs) : calcs[k].roi = roi].dvh

\* compare_structure_with_constraints
compare_structure_with_constraints(roi, structure, calcs, constraints) ==
    IF structure \notin DOMAIN constraints THEN [raised |-> "KeyError", rows |-> << >>]
    ELSE calculate_average_OAR_score(StructureRows(roi, structure, constraints[structure], StructureDvh(calcs, roi)))

RECURSIVE FormattedList(_)
FormattedList(df_list) ==
    IF df_list = << >> THEN << >>
    ELSE <<strip(replace(Head(df_list), "'"), " ")>> \o FormattedList(Tail(df_list))

\* get_structure_aliases: every cell of ALIASES.csv becomes the list of its items.
RECURSIVE get_structure_aliases(_)
get_structure_aliases(file) ==
    IF file = << >> THEN << >>
    ELSE <<[key |-> Head(file).key, aliases |-> FormattedList(split(Inner(Head(file).cell), ","))]>> \o get_structure_aliases(Tail(file))

\* alias_df.to_csv: every cell is written as the str of its list.
RECURSIVE AliasesToCsv(_)
AliasesToCsv(alias_df) ==
    IF alias_df = << >> THEN << >>
    ELSE <<[key |-> Head(alias_df).key, cell |-> StrList(Head(alias_df).aliases)]>> \o AliasesToCsv(Tail(alias_df))

\* A match that also lower-cases the alias.
MatchesIgnoringCase(roi, aliases) == \E k \in 1 .. Len(aliases) : lower(aliases[k]) = strip(lower(roi), " ")

\* Line 463: roi.lower().strip(" ") in ALIASES[structure].iloc[0]
Matches(roi, aliases) == \E k \in 1 .. Len(aliases) : aliases[k] = strip(lower(roi), " ")

RECURSIVE MatchedKeys(_, _)
MatchedKeys(roi, alias_df) ==
    IF alias_df = << >> THEN << >>
    ELSE (IF Matches(roi, Head(alias_df).aliases) THEN <<<<roi, Head(alias_df).key>>>> ELSE << >>) \o MatchedKeys(roi, Tail(alias_df))

\* Lines 461-463: the (roi, structure) pairs scored, in the order of the loops.
RECURSIVE MatchedPairs(_, _)
MatchedPairs(rois, alias_df) ==
    IF rois = << >> THEN << >> ELSE MatchedKeys(Head(rois), alias_df) \o MatchedPairs(Tail(rois), alias_df)

\* pd.concat([constraints_df, structure_df]); the first exception ends the loop.
Concatenated(structure_df, rest) ==
    IF structure_df.raised # "" THEN structure_df
    ELSE IF rest.raised # "" THEN rest
    ELSE [raised |-> "", rows |-> structure_df.rows \o rest.rows]

\* Lines 461-469.
RECURSIVE ScorePairs(_, _, _)
ScorePairs(pairs, calcs, constraints) ==
    IF pairs = << >> THEN [raised |-> "", rows |-> << >>]
    ELSE Concatenated(compare_structure_with_constraints(Head(pairs)[1], Head(pairs)[2], calcs, constraints), ScorePairs(Tail(pairs), calcs, constraints))

AverageScores(df) == SelectSeq(df, LAMBDA row : row.Type = "Average Score")

\* Lines 382-384: the sum of the Score of the 'Average Score' rows.
TotalScore(df) == SumScores(AverageScores(df))

\* calculate_total_score: a frame nothing was concatenated to has no "Type"
\* column, and indexing it raises KeyError.
calculate_total_score(df) ==
    IF df = << >> THEN [raised |-> "KeyError", rows |-> << >>]
    ELSE [raised |-> "",
          rows |-> df \o <<ConstraintRow(TotalPatient, TotalPatient, "Total Score", Dash, Dash, Dash, Dash, TotalScore(df))>>]

\* The patient and site identifiers read from the plan and from Mosaiq.
Mrn == 1

SiteId == 1

\* Lines 472-473: the identifier columns.
RECURSIVE Identified(_)
Identified(rows) ==
    IF rows = << >> THEN << >>
    ELSE <<[c \in DOMAIN Head(rows) \cup {"mrn", "site_id"} |-> IF c = "mrn" THEN Mrn ELSE IF c = "site_id" THEN SiteId ELSE Head(rows)[c]]>> \o Identified(Tail(rows))

WithIdentifiers(outcome) == [raised |-> outcome.raised, rows |-> Identified(outcome.rows)]

\* Lines 471-473, reached when the loop raised nothing.
Totalled(outcome) == IF outcome.raised # "" THEN outcome ELSE WithIdentifiers(calculate_total_score(outcome.rows))

\* Lines 458-471: the scored constraint table of the DVHs.
ConstraintTable(calcs, alias_df) == Totalled(ScorePairs(MatchedPairs(Rois(calcs), alias_df), calcs, CONSTRAINTS))

\* ROI labels of the uploaded structure set, each with its DVH.
RoiCatalogue ==
    <<[roi |-> <<" ", "L", "i", "v", "e", "r", " ">>, dvh |-> DVH(19, 21, 100)],
      [roi |-> <<"l", "i", "v", "e", "r", "_", "p", "t", "v">>, dvh |-> DVH(10, 30, 100)],
      [roi |-> <<"C", "O", "R", "D">>, dvh |-> DVH(5, 15, 50)],
      [roi |-> <<"L", "u", "n", "g">>, dvh |-> DVH(2, 4, 100)],
      [roi |-> <<"B", "o", "w", "e", "l">>, dvh |-> DVH(1, 3, 100)]>>

\* What calc_dvh can return: up to MaxRois of the labels, in the order of the file.
DvhCalcs ==
    {Pick(RoiCatalogue, indices) : indices \in {s \in UNION {[1 .. n -> 1 .. Len(RoiCatalogue)] : n \in 0 .. MaxRois} : Increasing(s)}}

\* ALIASES.csv as its user keeps it.
InitialAliases ==
    <<[key |-> Liver, cell |-> <<"[", "'", "l", "i", "v", "e", "r", "'", ",", " ", "'", "L", "i", "v", "e", "r", "_", "P", "T", "V", "'", "]">>],
      [key |-> Cord, cell |-> <<"[", "'", "c", "o", "r", "d", "'", "]">>],
      [key |-> Lung, cell |-> <<"[", "'", "l", "u", "n", "g", "'", "]">>]>>

\* The first entry of both select boxes.
SelectAnROI == <<"<", " ", "S", "e", "l", "e", "c", "t", " ", "a", "n", " ", "R", "O", "I", " ", ">">>

\* The state after the constraint check.
Checked(calcs, alias_df, outcome) ==
    /\ dvh_calcs' = calcs
    /\ ALIASES' = alias_df
    /\ constraints_df' = outcome.rows
    /\ score_error' = outcome.raised
    /\ score_pc' = IF outcome.raised = "" THEN "checked" ELSE "failed"

\* main, lines 455-471: the constraint check of one run of the page.
ConstraintCheck(calcs) ==
    /\ checks < MaxChecks
    /\ checks' = checks + 1
    /\ Checked(calcs, get_structure_aliases(alias_csv), ConstraintTable(calcs, get_structure_aliases(alias_csv)))
    /\ UNCHANGED <<alias_csv, memo_vars, call_vars, database_table, run_vars, file_vars, other, credential_vars, cli>>

Appended(alias_df, key_select, alias) ==
    [k \in 1 .. Len(alias_df) |-> IF alias_df[k].key = key_select THEN [alias_df[k] EXCEPT !.aliases = Append(@, alias)] ELSE alias_df[k]]

\* add_new_structure_alias, called at line 485 of the run that made the check.
add_new_structure_alias(alias_select, key_select) ==
    /\ score_pc = "checked"
    /\ alias_select \in {SelectAnROI} \cup {dvh_calcs[k].roi : k \in 1 .. Len(dvh_calcs)}
    /\ key_select \in {SelectAnROI} \cup {ALIASES[k].key : k \in 1 .. Len(ALIASES)}
    /\ IF alias_select # SelectAnROI /\ key_select # SelectAnROI
       THEN /\ ALIASES' = Appended(ALIASES, key_select, lower(alias_select))
            /\ alias_csv' = AliasesToCsv(Appended(ALIASES, key_select, lower(alias_select)))
       ELSE UNCHANGED <<ALIASES, alias_csv>>
    /\ score_pc' = "idle"
    /\ UNCHANGED <<dvh_calcs, constraints_df, score_error, checks, memo_vars, call_vars, database_table, run_vars, file_vars, other, credential_vars, cli>>

\* ------------------------------------------------------------ credentials
\* Python's None where a str is expected.
Absent == <<"None">>

Blank == << >>

KEYRING_SCOPE == <<"PyMedPhys_SQLLogin_Mosaiq">>

USERNAME_KEY == "username"

PASSWORD_KEY == "password"

\* str(port): the decimal digits of the number.
RECURSIVE Digits(_)
Digits(n) == IF n < 10 THEN <<ToString(n)>> ELSE Digits(n \div 10) \o <<ToString(n % 10)>>

\* f"{KEYRING_SCOPE}_{hostname}:{port}/{database}"
get_keyring_storage_name(hostname, port, database) ==
    KEYRING_SCOPE \o <<"_">> \o hostname \o <<":">> \o Digits(port) \o <<"/">> \o database

\* keyring.get_password: None when nothing is stored under the name and key.
get_password(ring, service, key) ==
    IF <<service, key>> \in DOMAIN ring THEN ring[<<service, key>>] ELSE Absent

\* keyring.set_password
set_password(ring, service, key, value) ==
    [entry \in DOMAIN ring \cup {<<service, key>>} |-> IF entry = <<service, key>> THEN value ELSE ring[entry]]

\* keyring.delete_password: raises PasswordDeleteError when nothing is stored.
delete_password(ring, service, key) ==
    IF <<service, key>> \in DOMAIN ring
    THEN [raised |-> "", ring |-> [entry \in DOMAIN ring \ {<<service, key>>} |-> ring[entry]]]
    ELSE [raised |-> "PasswordDeleteError", ring |-> ring]

get_username_and_password_without_prompt_fallback(ring, hostname, port, database) ==
    <<get_password(ring, get_keyring_storage_name(hostname, port, database), USERNAME_KEY),
      get_password(ring, get_keyring_storage_name(hostname, port, database), PASSWORD_KEY)>>

save_username(ring, username, hostname, port, database) ==
    set_password(ring, get_keyring_storage_name(hostname, port, database), USERNAME_KEY, username)

save_password(ring, password, hostname, port, database) ==
    set_password(ring, get_keyring_storage_name(hostname, port, database), PASSWORD_KEY, password)

\* Lines 101-102: the second delete is not reached when the first raises.
delete_credentials(ring, hostname, port, database) ==
    IF delete_password(ring, get_keyring_storage_name(hostname, port, database), USERNAME_KEY).raised # ""
    THEN delete_password(ring, get_keyring_storage_name(hostname, port, database), USERNAME_KEY)
    ELSE delete_password(delete_password(ring, get_keyring_storage_name(hostname, port, database), USERNAME_KEY).ring,
                         get_keyring_storage_name(hostname, port, database), PASSWORD_KEY)

\* A fallback that asks for the password at every call.
PasswordAlwaysAsked(password) == TRUE

\* Line 60.
NeedsUser(user) == user = Absent \/ user = Blank

\* Line 70.
NeedsPassword(password) == password = Absent

\* Lines 70-76, with the user known.
WithPassword(ring, user, asked_user, stored_password, typed_password, hostname, port, database) ==
    IF NeedsPassword(stored_password)
    THEN [raised |-> "", result |-> <<user, typed_password>>, asked_user |-> asked_user, asked_password |-> TRUE,
          ring |-> save_password(ring, typed_password, hostname, port, database)]
    ELSE [raised |-> "", result |-> <<user, stored_password>>, asked_user |-> asked_user, asked_password |-> FALSE, ring |-> ring]

\* Lines 60-76, with what the store holds.
WithStored(ring, stored, typed_user, typed_password, hostname, port, database) ==
    IF NeedsUser(stored[1])
    THEN IF typed_user = Blank
         THEN [raised |-> "ValueError", result |-> << >>, asked_user |-> TRUE, asked_password |-> FALSE, ring |-> ring]
         ELSE WithPassword(save_username(ring, typed_user, hostname, port, database), typed_user, TRUE, stored[2], typed_password, hostname, port, database)
    ELSE WithPassword(ring, stored[1], FALSE, stored[2], typed_password, hostname, port, database)

\* typed_user and typed_password are what user_input() and password_input()
\* return when they are invoked.
get_username_password_with_prompt_fallback(ring, hostname, port, database, typed_user, typed_password) ==
    WithStored(ring, get_username_and_password_without_prompt_fallback(ring, hostname, port, database),
               typed_user, typed_password, hostname, port, database)

\* The connections asked for; the first two share their storage name.
Triples ==
    {<< <<"h">>, 1, <<"x", ":", "2", "/", "d">> >>,
     << <<"h", ":", "1", "/", "x">>, 2, <<"d">> >>,
     << <<"h">>, 1433, <<"d">> >>}

TypedUsers == {Blank, <<"u">>}

TypedPasswords == {Blank, <<"p">>}

\* What another caller saves directly.
SavedUsers == {Blank}

SavedPasswords == {<<"q">>}

NoCredentialCall == [op |-> "none"]

StorageName(triple) == get_keyring_storage_name(triple[1], triple[2], triple[3])

Without(table, key) == [k \in DOMAIN table \ {key} |-> table[k]]

With(table, key, value) == [k \in DOMAIN table \cup {key} |-> IF k = key THEN value ELSE table[k]]

Held(table, key) == IF key \in DOMAIN table THEN table[key] ELSE << >>

\* The state after a call of the fallback.
Fetched(triple, typed_user, call) ==
    /\ keyring' = call.ring
    /\ credentials' = [op |-> "get", triple |-> triple, raised |-> call.raised, result |-> call.result,
                       asked_user |-> call.asked_user, asked_password |-> call.asked_password,
                       typed_user |-> IF call.asked_user THEN typed_user ELSE Absent, saved |-> call.ring # keyring,
                       settled |-> Held(settled, triple), kept |-> Held(kept, StorageName(triple))]
    /\ settled' = IF call.raised = "" THEN With(settled, triple, call.result) ELSE settled
    /\ kept' = IF call.raised = "" THEN With(kept, StorageName(triple), call.result) ELSE kept

GetCredentials(triple, typed_user, typed_password) ==
    /\ Fetched(triple, typed_user, get_username_password_with_prompt_fallback(keyring, triple[1], triple[2], triple[3], typed_user, typed_password))
    /\ UNCHANGED <<memo_vars, call_vars, database_table, run_vars, file_vars, other, score_vars, cli>>

SaveUsername(triple, username) ==
    /\ keyring' = save_username(keyring, username, triple[1], triple[2], triple[3])
    /\ credentials' = [op |-> "save_username", triple |-> triple]
    /\ kept' = Without(kept, StorageName(triple))
    /\ UNCHANGED <<settled, memo_vars, call_vars, database_table, run_vars, file_vars, other, score_vars, cli>>

SavePassword(triple, password) ==
    /\ keyring' = save_password(keyring, password, triple[1], triple[2], triple[3])
    /\ credentials' = [op |-> "save_password", triple |-> triple]
    /\ kept' = Without(kept, StorageName(triple))
    /\ UNCHANGED <<settled, memo_vars, call_vars, database_table, run_vars, file_vars, other, score_vars, cli>>

DeleteCredentials(triple) ==
    /\ keyring' = delete_credentials(keyring, triple[1], triple[2], triple[3]).ring
    /\ credentials' = [op |-> "delete", triple |-> triple, raised |-> delete_credentials(keyring, triple[1], triple[2], triple[3]).raised]
    /\ settled' = Without(settled, triple)
    /\ kept' = Without(kept, StorageName(triple))
    /\ UNCHANGED <<memo_vars, call_vars, database_table, run_vars, file_vars, other, score_vars, cli>>

\* ------------------------------------------------------------ anonymise_with_pseudo_cli
\* What is found at the paths a run can be given.
FileSystem == [scan |-> "file", study |-> "directory", nowhere |-> "missing"]

isfile(path) == FileSystem[path] = "file"

isdir(path) == FileSystem[path] = "directory"

\* The parsed command line.
Arguments ==
    [input_path : DOMAIN FileSystem,
     pseudo : BOOLEAN,
     delete_unknown_tags : BOOLEAN,
     ignore_unknown_tags : BOOLEAN,
     keywords_to_leave_unchanged : {<< >>, <<"PatientName">>},
     delete_original_files : BOOLEAN,
     preserve_filenames : BOOLEAN,
     clear_values : BOOLEAN,
     keep_private_tags : BOOLEAN]

\* Lines 67-72.
handle_unknown_tags(args) ==
    IF args.delete_unknown_tags THEN "True"
    ELSE IF args.ignore_unknown_tags THEN "False"
    ELSE "None"

\* Lines 79-85.
replacement_strategy(args) == IF args.pseudo THEN "pseudonymisation_dispatch" ELSE "None"

\* Lines 80-82: the name identifying_keywords_for_pseudo is bound only under
\* args.pseudo.
Bound(args) == args.pseudo

\* The keyword arguments of the call (lines 88-99 and 102-113).
Keywords(args) ==
    [path |-> args.input_path,
     delete_original_files |-> args.delete_original_files,
     anonymise_filenames |-> ~args.preserve_filenames,
     replace_values |-> ~args.clear_values,
     keywords_to_leave_unchanged |-> args.keywords_to_leave_unchanged,
     delete_private_tags |-> ~args.keep_private_tags,
     delete_unknown_tags |-> handle_unknown_tags(args),
     replacement_strategy |-> replacement_strategy(args),
     identifying_keywords |-> "get_default_pseudonymisation_keywords()"]

\* A call whose arguments are evaluated first: reading the unbound name raises
\* UnboundLocalError and the function is not entered.
Invoke(function, args) ==
    IF Bound(args)
    THEN [raised |-> "", invoked |-> <<[function |-> function, kwargs |-> Keywords(args)]>>]
    ELSE [raised |-> "UnboundLocalError", invoked |-> << >>]

\* Lines 87-118: raised is the exception the dispatch ends with, "" when none.
anonymise_with_pseudo_cli(args) ==
    IF isfile(args.input_path) THEN Invoke("anonymise_file", args)
    ELSE IF isdir(args.input_path) THEN Invoke("anonymise_directory", args)
    ELSE [raised |-> "FileNotFoundError", invoked |-> << >>]

NoCliRun == [called |-> FALSE]

RunCli(args) ==
    /\ cli' = [called |-> TRUE, args |-> args, raised |-> anonymise_with_pseudo_cli(args).raised, invoked |-> anonymise_with_pseudo_cli(args).invoked]
    /\ UNCHANGED <<memo_vars, call_vars, database_table, run_vars, file_vars, other, score_vars, credential_vars>>

InitCommon ==
    /\ wlutz_memo = EmptyCache
    /\ field_memo = EmptyCache
    /\ detections = << >>
    /\ loads = << >>
    /\ figures = << >>
    /\ last_call = NoCall
    /\ calls = 0
    /\ statistics_overview_csv = NoStatistics
    /\ pc = "idle"
    /\ runs = 0
    /\ previously_calculated_results = None
    /\ selected_algorithms = << >>
    /\ bb_diameter = 0
    /\ penumbra = 0
    /\ i = 0
    /\ collated_results = EmptyDataFrame
    /\ chart_bucket = << >>
    /\ error = ""
    /\ log = << >>
    /\ written = NothingWritten
    /\ preceding = NoRun
    /\ other = NoOther
    /\ alias_csv = InitialAliases
    /\ ALIASES = << >>
    /\ dvh_calcs = << >>
    /\ constraints_df = << >>
    /\ score_pc = "idle"
    /\ score_error = ""
    /\ checks = 0
    /\ keyring = << >>
    /\ credentials = NoCredentialCall
    /\ settled = << >>
    /\ kept = << >>
    /\ cli = NoCliRun

Init ==
    /\ InitCommon
    /\ database_table \in Datasets
    /\ raw_results_csv \in InitialFiles
    /\ initial_csv = raw_results_csv

Next ==
    \/ \E algorithms \in Selections, diameter \in Diameters, pen \in RunPenumbras : StartRun(algorithms, diameter, pen)
    \/ ProcessRow
    \/ WriteResults
    \/ WriteStatistics

Spec == Init /\ [][Next]_vars

InitCache ==
    /\ InitCommon
    /\ database_table = << >>
    /\ raw_results_csv = NoFile
    /\ initial_csv = NoFile

NextCache ==
    \/ \E relative_image_path \in Images, algorithm \in Algorithms, diameter \in Diameters, width \in 1 .. 2, pen \in Penumbras :
           CallCalculateWlutz(relative_image_path, algorithm, diameter, <<width, 1>>, pen)
    \/ \E relative_image_path \in Images, algorithms \in Selections, diameter \in Diameters, pen \in RunPenumbras :
           plot_diagnostic_figures(relative_image_path, diameter, <<1, 1>>, pen, algorithms)

SpecCache == InitCache /\ [][NextCache]_vars

\* Two sessions on one results path: the datasets and selections they run with.
RaceDatasets == {<<iview_database[1]>>, <<iview_database[2]>>, <<iview_database[1], iview_database[2]>>}

RaceSelections == {<<"PyMedPhys">>, <<"PyMedPhys", "PyLinac">>}

InitRace ==
    /\ InitCommon
    /\ database_table \in RaceDatasets
    /\ raw_results_csv \in {NoFile, PersistedFile(RESULTS_DATA_COLUMNS \cup DATABASE_COLUMNS)}
    /\ initial_csv = raw_results_csv

NextRace ==
    \/ \E algorithms \in RaceSelections, pen \in RunPenumbras : StartRun(algorithms, 1, pen)
    \/ ProcessRow
    \/ WriteResults
    \/ WriteStatistics
    \/ \E table \in RaceDatasets, algorithms \in RaceSelections, pen \in RunPenumbras : OtherStart(table, algorithms, 1, pen)
    \/ OtherFinish

SpecRace == InitRace /\ [][NextRace]_vars

NextScore ==
    \/ \E calcs \in DvhCalcs : ConstraintCheck(calcs)
    \/ \E alias_select \in {SelectAnROI} \cup {RoiCatalogue[k].roi : k \in 1 .. Len(RoiCatalogue)}, key_select \in {SelectAnROI} \cup StructureKeys :
           add_new_structure_alias(alias_select, key_select)

SpecScore == InitCache /\ [][NextScore]_vars

NextCredentials ==
    \/ \E triple \in Triples, typed_user \in TypedUsers, typed_password \in TypedPasswords : GetCredentials(triple, typed_user, typed_password)
    \/ \E triple \in Triples, username \in SavedUsers : SaveUsername(triple, username)
    \/ \E triple \in Triples, password \in SavedPasswords : SavePassword(triple, password)
    \/ \E triple \in Triples : DeleteCredentials(triple)

SpecCredentials == InitCache /\ [][NextCredentials]_vars

NextCli == \E args \in Arguments : RunCli(args)

SpecCli == InitCache /\ [][NextCli]_vars

\* ------------------------------------------------------------ properties
SameInputsAsPreceding ==
    /\ pc # "idle"
    /\ preceding.completed
    /\ preceding.selected_algorithms = selected_algorithms
    /\ preceding.bb_diameter = bb_diameter
    /\ preceding.penumbra = penumbra

NoDuplicateRows(file) == Cardinality(SeqToSet(file.rows)) = Len(file.rows)

\* C1: a run that follows a completed run with the same dataset, algorithms and
\* parameters, on the file that run wrote, does not abort, computes no detection
\* for any image, and writes the same set of rows, none of them twice.
C1_SecondRunIdempotent ==
    SameInputsAsPreceding =>
        /\ pc # "aborted"
        /\ \A k \in 1 .. Len(log) : ~log[k].computed /\ log[k].invoked = {}
        /\ written.raw_results = 1 =>
              /\ raw_results_csv.columns = preceding.file.columns
              /\ SeqToSet(raw_results_csv.rows) = SeqToSet(preceding.file.rows)
              /\ NoDuplicateRows(raw_results_csv)

\* C2: after completed runs on a results path that started without a file, the
\* persisted table holds at most one row for every (filepath, algorithm) pair.
C2_OneRowPerPair ==
    (pc = "done" /\ ~initial_csv.exists) =>
        \A a, b \in 1 .. Len(raw_results_csv.rows) :
            (/\ raw_results_csv.rows[a]["filepath"] = raw_results_csv.rows[b]["filepath"]
             /\ raw_results_csv.rows[a]["algorithm"] = raw_results_csv.rows[b]["algorithm"]) => a = b

AllOrNothing(result) ==
    LET undefined == {result.field_centre[1] = NaN, result.field_centre[2] = NaN, result.bb_centre[1] = NaN, result.bb_centre[2] = NaN}
    IN  Cardinality(undefined) = 1

\* C3: the result of _calculate_wlutz has its four coordinates all defined or
\* all undefined.
C3_AllOrNothing == last_call.called => AllOrNothing(last_call.result)

RowUndefined(row, columns) == \A c \in columns : row[c] = NaN

\* C4: a detection that fails never ends the run; a run that reaches its end has
\* processed every dataset row; the row of an image whose refinement failed has
\* its four coordinates and both differences undefined, the row of an image whose
\* BB optimisation failed has its BB centre and both differences undefined; and
\* every computed row is what the image's own detection gives, whatever happened
\* to the other images.
C4_DetectionFailureTolerated ==
    /\ error # "ValueError: detection"
    /\ pc \in {"statistics", "done"} => Len(log) = Len(database_table)
    /\ \A k \in 1 .. Len(log) : (log[k].computed /\ log[k].joined) =>
          \A r \in 1 .. Len(log[k].results) :
              LET row == log[k].results[r]
                  path == _get_full_image_path(database_directory, log[k].filepath)
                  edges == log[k].edge_lengths
              IN  /\ row = ResultRow(log[k].filepath, row["algorithm"], _calculate_wlutz(EmptyCache, path, row["algorithm"], bb_diameter, edges, penumbra))
                  /\ field_centre_and_rotation_refining(path, edges, penumbra).raised =>
                        RowUndefined(row, {"field_centre_x", "field_centre_y", "bb_centre_x", "bb_centre_y", "diff_x", "diff_y"})
                  /\ (/\ row["algorithm"] = "PyMedPhys"
                      /\ optimise_bb_centre(path, bb_diameter, edges, penumbra, <<row["field_centre_x"], row["field_centre_y"]>>, row["field_rotation"]).raised) =>
                        RowUndefined(row, {"bb_centre_x", "bb_centre_y", "diff_x", "diff_y"})

C4_Witness ==
    /\ pc = "done"
    /\ Len(log) = 2
    /\ log[1].computed /\ log[1].filepath = "no_bb.jpg" /\ "PyMedPhys" \in log[1].invoked
    /\ log[2].computed /\ log[2].filepath = "ok.jpg"
    /\ log[2].results[1]["bb_centre_x"] # NaN

\* C5: raw_results.csv is written at most once per run and only after every
\* dataset row was processed; until then, and in a run that aborts before, it
\* holds what it held when the run started; once written it holds every row it
\* held at the start (its new columns empty in them).
C5_PersistedRowsKept ==
    /\ written.raw_results <= 1
    /\ (pc = "loop" \/ (pc = "aborted" /\ written.raw_results = 0)) =>
          read_csv(raw_results_csv) = previously_calculated_results
    /\ written.raw_results = 1 =>
          /\ i = Len(database_table)
          /\ Len(log) = Len(database_table)
          /\ SeqToSet(FillRows(previously_calculated_results.rows, raw_results_csv.columns)) \subseteq SeqToSet(ParseRows(raw_results_csv.rows))

C5_Witness ==
    /\ pc = "done"
    /\ ~previously_calculated_results.none
    /\ Len(previously_calculated_results.rows) >= 1
    /\ Len(raw_results_csv.rows) > Len(previously_calculated_results.rows)

\* C6: every argument tuple ever computed ran the body exactly once and is still
\* in the memo table, under its own key, with the result of that very tuple; a
\* call returns the result of its own tuple; and the table holds one entry per
\* computed tuple.
C6_MemoKeyedOnFullTuple ==
    /\ \A args \in DOMAIN detections :
          /\ detections[args] = 1
          /\ WlutzCacheKey(args[1], args[2], args[3], args[4], args[5]) \in DOMAIN wlutz_memo
          /\ wlutz_memo[WlutzCacheKey(args[1], args[2], args[3], args[4], args[5])] = _calculate_wlutz(EmptyCache, args[1], args[2], args[3], args[4], args[5])
    /\ Cardinality(DOMAIN wlutz_memo) = Cardinality(DOMAIN detections)
    /\ last_call.called =>
          /\ Count(detections, last_call.args) = 1
          /\ last_call.result = _calculate_wlutz(EmptyCache, last_call.args[1], last_call.args[2], last_call.args[3], last_call.args[4], last_call.args[5])

C6_Witness ==
    /\ last_call.called
    /\ last_call.hit
    /\ calls = 2
    /\ Cardinality(DOMAIN wlutz_memo) = 1

\* C7: for every processed row, detection is invoked for no algorithm when every
\* selected algorithm has a persisted row for the image, and otherwise only for
\* the selected algorithms that have none.
C7_OnlyMissingComputed ==
    \A k \in 1 .. Len(log) :
        /\ (~previously_calculated_results.none /\ SeqToSet(selected_algorithms) \subseteq log[k].present) => log[k].invoked = {}
        /\ log[k].invoked \subseteq SeqToSet(selected_algorithms) \ log[k].present

LoadedWith(columns_ok) == pc # "idle" /\ ~previously_calculated_results.none /\ ~columns_ok

Untouched ==
    /\ i = 0
    /\ written = NothingWritten
    /\ \A k \in 1 .. Len(log) : log[k].invoked = {}
    /\ read_csv(raw_results_csv) = previously_calculated_results
    /\ pc \in {"loop", "aborted"}

\* C8 as stated: a persisted file whose column set is not exactly the nine result
\* columns is rejected with the 'unexpected columns' error before any row is
\* processed and before anything is written.
C8_UnexpectedColumnsRejected ==
    LoadedWith(previously_calculated_results.columns = RESULTS_DATA_COLUMNS) =>
        /\ Untouched
        /\ log = << >>
        /\ pc = "aborted" => error = "ValueError: Unexpected columns"

\* C8 amended: a persisted file that lacks one of the nine result columns ends
\* the run with a KeyError at its first dataset row, before any detection and
\* before anything is written; with a dataset to process, a KeyError has no other
\* cause, so a file that has the nine columns and more is accepted.
C8_MissingColumnRejected ==
    /\ LoadedWith(RESULTS_DATA_COLUMNS \subseteq previously_calculated_results.columns) =>
          /\ Untouched
          /\ pc = "aborted" => error = "KeyError"
    /\ (pc = "aborted" /\ error = "KeyError" /\ Len(database_table) > 0) =>
          ~(RESULTS_DATA_COLUMNS \subseteq previously_calculated_results.columns)

C8_Witness ==
    /\ pc = "aborted"
    /\ error = "KeyError"
    /\ Len(database_table) > 0
    /\ Len(log) = 1
    /\ "bb_centre_y" \notin previously_calculated_results.columns

\* C9 as stated: the file written by a completed run has exactly the nine result
\* columns.
C9_ExactlyNineColumns == pc = "done" => raw_results_csv.columns = RESULTS_DATA_COLUMNS

\* C9 amended: the file a run writes has the nine result columns, the columns of
\* the dataset, and the columns the persisted file had at the start of the run.
C9_ResultAndDatasetColumns ==
    written.raw_results = 1 =>
        raw_results_csv.columns = RESULTS_DATA_COLUMNS \cup DATABASE_COLUMNS \cup previously_calculated_results.columns

C9_Witness ==
    /\ pc = "done"
    /\ previously_calculated_results.none
    /\ Len(raw_results_csv.rows) >= 1

ValuesJoined(entry, column) ==
    IF entry.results = << >> THEN {}
    ELSE {database_table[d][column] : d \in {n \in 1 .. Len(database_table) : database_table[n]["filepath"] = entry.filepath}}

\* C10: when the results of a processed image joined with the dataset have not
\* exactly one treatment, or not exactly one port, the run ends at that row with
\* the error of that column, and has written neither of its files.
C10_IntegrityErrorHalts ==
    \A k \in 1 .. Len(log) :
        (/\ log[k].joined
         /\ \/ Cardinality(ValuesJoined(log[k], "treatment")) # 1
            \/ Cardinality(ValuesJoined(log[k], "port")) # 1) =>
            /\ k = Len(log)
            /\ i = k - 1
            /\ pc = "aborted"
            /\ written = NothingWritten
            /\ error = IF Cardinality(ValuesJoined(log[k], "treatment")) # 1
                       THEN "ValueError: Expected exactly one treatment per image"
                       ELSE "ValueError: Expected exactly one port per image"

C10_Witness ==
    /\ pc = "aborted"
    /\ error = "ValueError: Expected exactly one port per image"
    /\ Len(log) = 1
    /\ Cardinality(ValuesJoined(log[1], "port")) = 2

\* ------------------------------------------------------------ properties of the scorer
\* The rows of the table that compare_structure_with_constraints returned for
\* the ROI and the structure key.
RowsOf(roi, structure) ==
    SelectSeq(constraints_df, LAMBDA row : row.Structure = roi /\ row.Structure_Key = structure)

ScoredRows(rows) == SelectSeq(rows, LAMBDA row : row.Type \in {"Mean", "Max", "V%", "D%"})

Scored(roi, structure) == RowsOf(roi, structure) # << >>

Listed(structure, type) ==
    {entry \in SeqToSet(CONSTRAINTS[structure]) : entry.type = type /\ ~entry.constraint.placeholder}

\* C11: for every ROI scored against a structure key and every threshold t listed
\* under the key's Mean (Max) type, the table has exactly one row of that ROI, key
\* and type whose Score is t minus the mean (max) of the ROI's DVH.
C11_MeanMaxScore ==
    \A k \in 1 .. Len(dvh_calcs), structure \in StructureKeys :
        Scored(dvh_calcs[k].roi, structure) =>
            \A type \in {"Mean", "Max"} : \A entry \in Listed(structure, type) :
                \A t \in 1 .. Len(entry.constraint.thresholds) :
                    Cardinality({r \in 1 .. Len(constraints_df) :
                        /\ constraints_df[r].Structure = dvh_calcs[k].roi
                        /\ constraints_df[r].Structure_Key = structure
                        /\ constraints_df[r].Type = type
                        /\ constraints_df[r].Score = RatSub(entry.constraint.thresholds[t][1], IF type = "Mean" THEN dvh_calcs[k].dvh.mean ELSE dvh_calcs[k].dvh.max)}) = 1

C11_Witness ==
    /\ score_pc = "checked"
    /\ \E r \in 1 .. Len(constraints_df) :
          /\ constraints_df[r].Type = "Mean"
          /\ constraints_df[r].Dose = Number(18)
          /\ constraints_df[r].ActualDose = Number(20)
          /\ constraints_df[r].Score = Number(0 - 2)
    /\ \E r \in 1 .. Len(constraints_df) : constraints_df[r].Type = "Max" /\ constraints_df[r].Score = Number(3)

AliasesOf(structure) == ALIASES[CHOOSE k \in 1 .. Len(ALIASES) : ALIASES[k].key = structure].aliases

Front(rows) == SubSeq(rows, 1, Len(rows) - 1)

\* C12: a constraint check never ends with the IndexError of the average, and
\* for every ROI matched to a structure key the rows returned for the pair are
\* its scored constraint rows followed by one 'Average Score' row whose Score is
\* the sum of their scores divided by their number.
C12_AverageRow ==
    score_pc \in {"checked", "failed"} =>
        /\ score_error # "IndexError"
        /\ score_pc = "checked" =>
              \A k \in 1 .. Len(dvh_calcs), structure \in StructureKeys :
                  Matches(dvh_calcs[k].roi, AliasesOf(structure)) =>
                      /\ Len(RowsOf(dvh_calcs[k].roi, structure)) >= 2
                      /\ Front(RowsOf(dvh_calcs[k].roi, structure)) = ScoredRows(RowsOf(dvh_calcs[k].roi, structure))
                      /\ RowsOf(dvh_calcs[k].roi, structure)[Len(RowsOf(dvh_calcs[k].roi, structure))].Type = "Average Score"
                      /\ RowsOf(dvh_calcs[k].roi, structure)[Len(RowsOf(dvh_calcs[k].roi, structure))].Score
                             = RatDiv(SumScores(Front(RowsOf(dvh_calcs[k].roi, structure))), Number(Len(RowsOf(dvh_calcs[k].roi, structure)) - 1))

\* C13: a constraint check that the average did not end returns a table whose
\* last row, and no other, is a 'Total Score' row, its Score the sum of the Score
\* of the 'Average Score' rows.
C13_TotalRow ==
    (score_pc \in {"checked", "failed"} /\ score_error # "IndexError") =>
        /\ score_pc = "checked"
        /\ Len(constraints_df) >= 1
        /\ \A r \in 1 .. Len(constraints_df) : constraints_df[r].Type = "Total Score" <=> r = Len(constraints_df)
        /\ constraints_df[Len(constraints_df)].Score = SumScores(AverageScores(constraints_df))

\* C14: for every ROI scored against a structure key, a constraint type whose
\* entry is the placeholder has no row, every other type has one row per listed
\* threshold, and the Average Score is taken over these rows alone.
C14_PlaceholderSkipped ==
    \A k \in 1 .. Len(dvh_calcs), structure \in StructureKeys :
        Scored(dvh_calcs[k].roi, structure) =>
            /\ \A e \in 1 .. Len(CONSTRAINTS[structure]) :
                  Len(SelectSeq(RowsOf(dvh_calcs[k].roi, structure), LAMBDA row : row.Type = CONSTRAINTS[structure][e].type))
                      = IF CONSTRAINTS[structure][e].constraint.placeholder THEN 0 ELSE Len(CONSTRAINTS[structure][e].constraint.thresholds)
            /\ \A r \in 1 .. Len(RowsOf(dvh_calcs[k].roi, structure)) :
                  RowsOf(dvh_calcs[k].roi, structure)[r].Type = "Average Score" =>
                      RowsOf(dvh_calcs[k].roi, structure)[r].Score
                          = RatDiv(SumScores(ScoredRows(RowsOf(dvh_calcs[k].roi, structure))), Number(Len(ScoredRows(RowsOf(dvh_calcs[k].roi, structure)))))

C14_Witness ==
    /\ score_pc = "checked"
    /\ \E k \in 1 .. Len(dvh_calcs) :
          /\ Scored(dvh_calcs[k].roi, Cord)
          /\ Len(ScoredRows(RowsOf(dvh_calcs[k].roi, Cord))) = 3
          /\ \A r \in 1 .. Len(RowsOf(dvh_calcs[k].roi, Cord)) : RowsOf(dvh_calcs[k].roi, Cord)[r].Type # "Mean"

\* C15: in a constraint check that returned its table, an ROI is scored against
\* a structure key exactly when its label, lower-cased and trimmed, equals one of
\* the key's aliases lower-cased and trimmed.
C15_AliasMatching ==
    score_pc = "checked" =>
        \A k \in 1 .. Len(dvh_calcs), structure \in StructureKeys :
            Scored(dvh_calcs[k].roi, structure) <=> MatchesIgnoringCase(dvh_calcs[k].roi, AliasesOf(structure))

\* ------------------------------------------------------------ properties of the statistics
\* The (treatment, port) pairs of the dataset's rows.
DatasetPairs == {<<database_table[d]["treatment"], database_table[d]["port"]>> : d \in 1 .. Len(database_table)}

RecordsOf(pair, orientation, algorithm) ==
    {record \in statistics_overview_csv.rows :
        /\ record.treatment = pair[1] /\ record.port = pair[2]
        /\ record.orientation = orientation /\ record.algorithm = algorithm}

\* min, max and mean (in hundredths, rounded) of the values are those of the record.
Summarises(record, values) ==
    IF values = << >> THEN record.min = NaN /\ record.max = NaN /\ record.mean = NaN
    ELSE /\ record.min # NaN /\ \A v \in SeqToSet(values) : record.min <= v
         /\ record.max # NaN /\ \A v \in SeqToSet(values) : record.max >= v
         /\ record.min \in SeqToSet(values) /\ record.max \in SeqToSet(values)
         /\ record.mean = RoundDiv(100 * Sum(values), Len(values))

OneRecordEach ==
    /\ \A pair \in DatasetPairs, orientation \in Orientations, algorithm \in SeqToSet(selected_algorithms) :
          Cardinality(RecordsOf(pair, orientation[2], algorithm)) = 1
    /\ \A record \in statistics_overview_csv.rows :
          /\ <<record.treatment, record.port>> \in DatasetPairs
          /\ record.orientation \in {"Transverse", "Radial"}
          /\ record.algorithm \in SeqToSet(selected_algorithms)

\* C16 as stated: after a completed run the statistics hold one record for each
\* (treatment, port) pair of the run, orientation and selected algorithm, and the
\* record summarises the diff values of its group in the merged table that the
\* run wrote to raw_results.csv.
C16_StatisticsOfMergedTable ==
    pc = "done" =>
        /\ OneRecordEach
        /\ \A pair \in DatasetPairs, orientation \in Orientations, algorithm \in SeqToSet(selected_algorithms) :
              \A record \in RecordsOf(pair, orientation[2], algorithm) :
                  Summarises(record, ColumnValues(ParseRows(raw_results_csv.rows), pair[1], pair[2], algorithm, orientation[1]))

\* C16 amended: the record summarises the diff values of its group in this run's
\* results joined with the dataset: the rows computed or reused for the images of
\* the dataset in this run.
C16_StatisticsOfThisRun ==
    pc = "done" =>
        /\ OneRecordEach
        /\ \A pair \in DatasetPairs, orientation \in Orientations, algorithm \in SeqToSet(selected_algorithms) :
              \A record \in RecordsOf(pair, orientation[2], algorithm) :
                  Summarises(record, ColumnValues(JoinRows(collated_results.rows, database_table), pair[1], pair[2], algorithm, orientation[1]))

C16_Witness ==
    /\ pc = "done"
    /\ Len(database_table) = 2
    /\ Len(selected_algorithms) = 2
    /\ \E record \in statistics_overview_csv.rows : record.min # NaN /\ record.min < record.max /\ record.mean # 100 * record.min
    /\ Len(raw_results_csv.rows) > Len(collated_results.rows)

\* ------------------------------------------------------------ properties of the edge lengths
\* The dataset row the k-th iteration of the reversed loop is processing.
ProcessedRow(k) == database_table[Len(database_table) - (k - 1)]

\* C17: for every image the run computes, the edge lengths handed to the
\* detection are the width and length of the dataset row being processed, the
\* row of that image.
C17_EdgeLengthsOfOwnRow ==
    \A k \in 1 .. Len(log) :
        (log[k].computed /\ log[k].invoked # {}) =>
            /\ log[k].filepath = ProcessedRow(k)["filepath"]
            /\ log[k].edge_lengths = <<ProcessedRow(k)["width"], ProcessedRow(k)["length"]>>

\* ------------------------------------------------------------ properties of the field interpolation
RECURSIVE SumCounts(_, _)
SumCounts(counts, keys) ==
    IF keys = {} THEN 0
    ELSE LET key == CHOOSE k \in keys : TRUE
         IN  counts[key] + SumCounts(counts, keys \ {key})

\* The times the body of _calculate_wlutz ran for the field key.
DetectionsOf(field_key) ==
    SumCounts(detections, {args \in DOMAIN detections : FieldCacheKey(args[1], args[4], args[5]) = field_key})

\* C18 as stated: for a fixed (image path, edge_lengths, penumbra) the field
\* interpolation is performed at most once, however many algorithms are computed
\* and however many figures are requested.
C18_InterpolationOnce == \A field_key \in DOMAIN loads : loads[field_key] <= 1

\* C18 amended: what is memoised on (image path, edge_lengths, penumbra) is the
\* refinement of the field centre and rotation, whose body runs once per key;
\* the interpolation runs in that body, and again in every executed body of
\* _calculate_wlutz and in every request of diagnostic figures.
C18_RefinementOnce ==
    /\ DOMAIN loads = DOMAIN field_memo
    /\ DOMAIN figures \subseteq DOMAIN loads
    /\ \A field_key \in DOMAIN loads :
          /\ loads[field_key] = 1 + DetectionsOf(field_key) + Count(figures, field_key)
          /\ field_memo[field_key] = _get_pymedphys_field_centre_and_rotation(field_key[1], field_key[2], field_key[3])

C18_Witness ==
    /\ calls = 2
    /\ \E field_key \in DOMAIN loads :
          /\ Count(figures, field_key) = 1
          /\ DetectionsOf(field_key) = 2
          /\ loads[field_key] = 4
    /\ last_call.called /\ last_call.hit

\* ------------------------------------------------------------ properties of two sessions
\* Both runs read the file before either wrote it: the second session read
\* while this run was in its loop, or this run started between the read and the
\* write of the second session; and this run is still that run.
BothReadBeforeEitherWrote ==
    /\ other.pc = "done"
    /\ runs = other.finish.runs
    /\ \/ other.start.pc = "loop" /\ other.finish.runs = other.start.runs
       \/ other.start.pc # "loop" /\ other.finish.runs = other.start.runs + 1

ThisWroteLast == other.finish.written = 0 /\ written.raw_results = 1

OtherWroteLast == other.wrote /\ other.finish.written = 1

Paths(table) == {table[d]["filepath"] : d \in 1 .. Len(table)}

\* The rows only the given run has: of images outside the dataset of the run
\* that wrote last and not in the snapshot that run read.
OnlyIn(collated, table, last_table, last_snapshot) ==
    {row \in SeqToSet(FormatRows(JoinRows(collated.rows, table))) :
        /\ row["filepath"] \notin Paths(last_table)
        /\ last_snapshot.none \/ \A r \in 1 .. Len(last_snapshot.rows) : last_snapshot.rows[r]["filepath"] # ParseRows(<<row>>)[1]["filepath"]}

\* C19: when both runs read the persisted file before either wrote it, the file
\* holds exactly the table of the run that wrote last, its own results merged with
\* the snapshot it read, and no row that only the run that wrote first computed.
C19_LastWriterWins ==
    BothReadBeforeEitherWrote =>
        /\ ThisWroteLast =>
              /\ raw_results_csv = to_csv(MergedWithPrevious(collated_results, database_table, previously_calculated_results))
              /\ other.wrote => OnlyIn(other.collated_results, other.database_table, database_table, previously_calculated_results) \cap SeqToSet(raw_results_csv.rows) = {}
        /\ OtherWroteLast =>
              /\ raw_results_csv = to_csv(MergedWithPrevious(other.collated_results, other.database_table, other.previously_calculated_results))
              /\ OnlyIn(collated_results, database_table, other.database_table, other.previously_calculated_results) \cap SeqToSet(raw_results_csv.rows) = {}

C19_Witness ==
    /\ BothReadBeforeEitherWrote
    /\ OtherWroteLast
    /\ pc = "done"
    /\ OnlyIn(collated_results, database_table, other.database_table, other.previously_calculated_results) # {}

\* ------------------------------------------------------------ properties of the chart bucket
\* The working table of the k-th processed image.
EntryRows(k) == IF log[k].joined THEN Transformed(JoinRows(log[k].results, database_table)) ELSE << >>

PairsOf(rows) == {<<row["treatment"], row["port"]>> : row \in SeqToSet(rows)}

EntryPairs(k) == PairsOf(EntryRows(k))

\* The k-th image reached the chart bucket: its results were obtained and its
\* working table has one treatment and one port.
Entered(k) == log[k].joined /\ Cardinality(EntryPairs(k)) = 1

\* The rows the image brings to the accumulator of the pair.
Contribution(key, rows) == IF PairsOf(rows) = {key} THEN rows ELSE << >>

\* The working tables of the first k images that have the pair, in the order
\* of processing.
RECURSIVE RowsOfPair(_, _)
RowsOfPair(key, k) ==
    IF k = 0 THEN << >>
    ELSE RowsOfPair(key, k - 1) \o Contribution(key, EntryRows(k))

\* C20: during a run every (treatment, port) pair met so far has one accumulator,
\* built once, and it holds the working tables of exactly the processed images of
\* that pair, each once, the first of them first.
C20_AccumulatorBuiltOnce ==
    /\ DOMAIN chart_bucket = UNION {EntryPairs(k) : k \in {n \in 1 .. Len(log) : Entered(n)}}
    /\ \A key \in DOMAIN chart_bucket :
          /\ chart_bucket[key].built = 1
          /\ chart_bucket[key].rows = RowsOfPair(key, Len(log))

C20_Witness ==
    /\ pc = "done"
    /\ Len(log) = 2
    /\ Entered(1) /\ Entered(2)
    /\ EntryPairs(1) = EntryPairs(2)
    /\ log[1].filepath # log[2].filepath
    /\ \E key \in DOMAIN chart_bucket : chart_bucket[key].rows = EntryRows(1) \o EntryRows(2) /\ Len(EntryRows(2)) >= 1

\* ------------------------------------------------------------ properties of the credentials
\* A call that asked for the user and got a blank one raises ValueError, does
\* not ask for the password and saves nothing.
BlankUserRejected ==
    (credentials.asked_user /\ credentials.typed_user = Blank) =>
        /\ credentials.raised = "ValueError"
        /\ ~credentials.asked_password
        /\ ~credentials.saved

Unprompted(pair) ==
    /\ credentials.raised = ""
    /\ credentials.result = pair
    /\ ~credentials.asked_user
    /\ ~credentials.asked_password

\* C21 as stated: a call for a triple that an earlier call returned a pair for,
\* with no delete_credentials for the triple in between, returns that pair and
\* asks for nothing; and a blank user raises ValueError before the password is
\* asked for and before anything is saved.
C21_PairKeptUntilDelete ==
    credentials.op = "get" =>
        /\ credentials.settled # << >> => Unprompted(credentials.settled)
        /\ BlankUserRejected

\* C21 amended: a call returns without asking the pair that the latest returned
\* call under the same storage name returned, when no delete_credentials,
\* save_username or save_password under that storage name came in between; two
\* triples can have one storage name; and a blank user raises ValueError
\* before the password is asked for and before anything is saved.
C21_PairKeptUntilDeleteOrSave ==
    credentials.op = "get" =>
        /\ credentials.kept # << >> => Unprompted(credentials.kept)
        /\ BlankUserRejected

C21_Witness ==
    /\ credentials.op = "get"
    /\ credentials.kept # << >>
    /\ credentials.settled = credentials.kept
    /\ credentials.result = credentials.kept
    /\ credentials.result[2] = <<"p">>
    /\ Cardinality(DOMAIN kept) = 2

\* ------------------------------------------------------------ properties of the command line
InvokedOnce(function) ==
    /\ cli.raised = ""
    /\ Len(cli.invoked) = 1
    /\ cli.invoked[1].function = function

\* C22: whatever the arguments, a run on a file invokes anonymise_file exactly
\* once, a run on a directory invokes anonymise_directory exactly once, and any
\* other run raises FileNotFoundError and invokes neither; the dispatch raises
\* no other error.
C22_DispatchByPathKind ==
    cli.called =>
        /\ isfile(cli.args.input_path) => InvokedOnce("anonymise_file")
        /\ (~isfile(cli.args.input_path) /\ isdir(cli.args.input_path)) => InvokedOnce("anonymise_directory")
        /\ (~isfile(cli.args.input_path) /\ ~isdir(cli.args.input_path)) => (cli.raised = "FileNotFoundError" /\ cli.invoked = << >>)
        /\ cli.raised \in {"", "FileNotFoundError"}

====
